---- MODULE Spec2Model ----
(***************************************************************************)
(* State-machine model of the apple-event-shader scene: the HUD parameter  *)
(* controller, the ping-pong heat-trail accumulator (DrawRenderer), the    *)
(* compositor material (ThermalMaterial), the scene's asset loading and    *)
(* the per-frame loop of AppRenderer.                                      *)
(*                                                                         *)
(* Numbers are fixed-point integers.  The nine effect parameters and the   *)
(* compositor uniforms fed from them are in hundredths (0.95 is 95).       *)
(* Animated values, interpolation factors and pointer coordinates are in   *)
(* thousandths (0.8 is 800).  Heat is in millionths (1.3 is 1300000), so   *)
(* that values below the cleanup threshold 0.001 (1000) are representable. *)
(***************************************************************************)
EXTENDS Integers, Sequences, FiniteSets, TLC

VARIABLES
    \* ParameterController
    parameterController, \* AppScene.parameterController: "undefined" | "created"
    parameters,         \* ParameterController.parameters
    changeLog,          \* the onParameterChange calls made by the last handler
    lastCall,           \* the last parameter operation and its arguments
    nCalls,             \* number of parameter operations performed so far
    \* legacy scene (src/src/scenes/AppScene.ts)
    legacyParameters,   \* AppScene.parameters of the legacy scene
    legacyScene,        \* its videoReady, hold, heatUp, the heat handed to
                        \* updateDraw, and the number of update() calls
    \* refactored scene (AppScene) and its components
    initState,          \* the promise of AppScene.init(): "notCalled" |
                        \* "awaiting" | "resolved" | "rejected"
    maskTexture,        \* AppScene.maskTexture: "undefined" | "maskTexture"
    videoTexture,       \* AppScene.videoTexture: "undefined" | "videoTexture"
    videoReady,         \* AppScene.videoReady
    textureReady,       \* AppScene.textureReady
    assetLoad,          \* the mask and video loads: their state and the number
                        \* of requests issued for each
    released,           \* the scene fields dispose() has released
    disposal,           \* the dispose() calls so far and what the last one did
    video,              \* the video element: paused, currentTime, the promise
                        \* of the last play(), the play button's text
    dom,                \* the document: the elements present, the scene's
                        \* construction, the elements the program has bound
    heatUp,             \* AppScene.heatUp
    animationValues,    \* AppScene.animationValues
    thermalMaterial,    \* ThermalMaterial: created flag and its uniforms
    heatMesh,           \* AppScene.heatMesh: created flag and its scale
    interaction,        \* InteractionManager: created flag and its state
    drawRenderer,       \* DrawRenderer: render targets and uniforms
    camera,             \* AppScene.camera: the orthographic bounds, and what
                        \* the last onResize() call left behind
    \* AppRenderer and its animation loop
    appRenderer,        \* AppRenderer.scene / camera / onUpdate as main sets them,
                        \* and AppRenderer.rect
    loopAlive,          \* the animation loop still schedules frame callbacks
    frame,              \* number of frame callbacks run so far
    lastFrame,          \* what the last frame callback did
    texHistory,         \* getTexture() before each of the last two render() calls
    sinceEvent          \* pointer events so far: their count, the last event, its
                        \* callbacks and delta, the accumulator passes since

paramVars  == <<parameterController, parameters, changeLog, lastCall, nCalls>>
legacyVars == <<legacyParameters, legacyScene>>
assetVars  == <<initState, maskTexture, videoTexture, videoReady, textureReady,
                assetLoad, released, disposal, video, dom>>
sceneVars  == <<heatUp, animationValues, thermalMaterial, heatMesh,
                interaction, drawRenderer, camera>>
loopVars   == <<appRenderer, loopAlive, frame, lastFrame, texHistory, sinceEvent>>
\* assetVars but for the document
assetVarsButDom ==
    <<initState, maskTexture, videoTexture, videoReady, textureReady,
      assetLoad, released, disposal, video>>

vars == <<paramVars, legacyVars, assetVars, sceneVars, loopVars>>

---------------------------------------------------------------------------
(* Bounds of the model *)

\* at most this many parameter operations (writes and resets) in a behaviour
MaxCalls == 2

\* at most this many update() calls of the legacy scene in a behaviour
MaxLegacyFrames == 4

---------------------------------------------------------------------------
(* config/constants.ts *)

DEFAULT_PARAMETERS ==
    [ effectIntensity   |-> 100,
      contrastPower     |-> 80,
      colorSaturation   |-> 130,
      heatSensitivity   |-> 50,
      videoBlendAmount  |-> 100,
      gradientShift     |-> 0,
      heatDecay         |-> 95,
      interactionRadius |-> 100,
      reactivity        |-> 100 ]

PARAMETER_RANGES ==
    [ effectIntensity   |-> [min |-> 0,   max |-> 200],
      contrastPower     |-> [min |-> 10,  max |-> 200],
      colorSaturation   |-> [min |-> 50,  max |-> 300],
      heatSensitivity   |-> [min |-> 10,  max |-> 200],
      videoBlendAmount  |-> [min |-> 0,   max |-> 100],
      gradientShift     |-> [min |-> -50, max |-> 50],
      heatDecay         |-> [min |-> 80,  max |-> 99],
      interactionRadius |-> [min |-> 10,  max |-> 300],
      reactivity        |-> [min |-> 10,  max |-> 300] ]

ParameterNames == DOMAIN DEFAULT_PARAMETERS

\* the order in which setupControls registers the nine controls, which is
\* the iteration order of the parameterControls map
controls ==
    << "effectIntensity", "contrastPower", "colorSaturation",
       "heatSensitivity", "videoBlendAmount", "gradientShift",
       "heatDecay", "interactionRadius", "reactivity" >>

\* values a caller may pass for parameter p: below the range, at either
\* bound, inside the range, above the range
InputValues(p) ==
    LET r == PARAMETER_RANGES[p]
    IN  { r.min - 10, r.min, (r.min + r.max) \div 2, r.max, r.max + 10 }

\* values a HUD slider can report for parameter p (its min/max attributes)
SliderValues(p) ==
    LET r == PARAMETER_RANGES[p]
    IN  { r.min, (r.min + r.max) \div 2, r.max }

MathMax(a, b) == IF a >= b THEN a ELSE b
MathMin(a, b) == IF a <= b THEN a ELSE b

---------------------------------------------------------------------------
(* ThermalMaterial *)

\* a material created without looking at the scene's video texture
createUniformsWithoutVideo(drawTex, videoTex, maskTex) ==
    [ created         |-> TRUE,
      drawMap         |-> drawTex,
      textureMap      |-> "undefined",
      maskMap         |-> maskTex,
      blendVideo      |-> 0,
      opacity         |-> 1000,
      amount          |-> 0,
      power           |-> 80,
      effectIntensity |-> 100,
      colorSaturation |-> 130,
      gradientShift   |-> 0,
      interactionSize |-> 100 ]

\* ThermalMaterial.createUniforms: the uniforms right after construction
createUniforms(drawTex, videoTex, maskTex) ==
    [ created         |-> TRUE,
      drawMap         |-> drawTex,
      textureMap      |-> videoTex,
      maskMap         |-> maskTex,
      blendVideo      |-> 0,
      opacity         |-> 1000,
      amount          |-> 0,
      power           |-> 80,
      effectIntensity |-> 100,
      colorSaturation |-> 130,
      gradientShift   |-> 0,
      interactionSize |-> 100 ]

\* the field before AppScene.createThermalEffect has run
NoThermalMaterial ==
    [ createUniforms("undefined", "undefined", "undefined")
        EXCEPT !.created = FALSE ]

\* ThermalMaterial.updateFromParameters
updateFromParameters(tm, p) ==
    [ tm EXCEPT !.effectIntensity = p.effectIntensity,
                !.colorSaturation = p.colorSaturation,
                !.gradientShift   = p.gradientShift,
                !.interactionSize = p.interactionRadius,
                !.power           = p.contrastPower,
                !.blendVideo      = p.videoBlendAmount ]

---------------------------------------------------------------------------
(* ParameterController *)

\* the range check of setParameter: Math.max(min, Math.min(max, value))
NoClampToRange(name, value) == value
ClampToRange(name, value) ==
    IF name \in DOMAIN PARAMETER_RANGES
    THEN MathMax(PARAMETER_RANGES[name].min,
                 MathMin(PARAMETER_RANGES[name].max, value))
    ELSE value

\* one onParameterChange call as the scene's callback sees it: the callback
\* reads getAllParameters() at the time of the call
ChangeCall(name, value, current) ==
    [name |-> name, value |-> value, seen |-> current]

\* ParameterController.setParameter on stored parameters p: the new stored
\* parameters and the callback fired
setParameter(p, name, value) ==
    LET clamped == ClampToRange(name, value)
        stored  == [p EXCEPT ![name] = clamped]
    IN  [ parameters |-> stored,
          calls      |-> << ChangeCall(name, clamped, stored) >> ]

\* ParameterController.resetToDefaults: the whole object is replaced first,
\* then one callback per registered control, in map order
ResetOneByOne(p) ==
    LET step[i \in 0..Len(controls)] ==
          IF i = 0 THEN [parameters |-> p, calls |-> << >>]
          ELSE LET prev == step[i - 1]
                   name == controls[i]
                   next == [prev.parameters EXCEPT ![name] = DEFAULT_PARAMETERS[name]]
               IN  [ parameters |-> next,
                     calls |-> Append(prev.calls,
                                      ChangeCall(name, DEFAULT_PARAMETERS[name], next)) ]
    IN  step[Len(controls)]
resetToDefaults(p) ==
    LET stored == DEFAULT_PARAMETERS
    IN  [ parameters |-> stored,
          calls      |-> [ i \in 1..Len(controls) |->
                             ChangeCall(controls[i],
                                        DEFAULT_PARAMETERS[controls[i]], stored) ] ]

\* ParameterController.setParameters: setParameter for each supplied entry,
\* in the order of Object.entries
RECURSIVE setParameters(_, _)
setParameters(p, entries) ==
    IF entries = << >> THEN [parameters |-> p, calls |-> << >>]
    ELSE LET first == setParameter(p, Head(entries).name, Head(entries).value)
             rest  == setParameters(first.parameters, Tail(entries))
         IN  [ parameters |-> rest.parameters,
               calls      |-> first.calls \o rest.calls ]

\* the scene's onParameterChange callback (setupParameterController): every
\* call pushes the controller's current parameters into the material; after
\* a handler the material reflects the last call
AfterCalls(tm, calls) ==
    IF calls = << >> THEN tm
    ELSE updateFromParameters(tm, calls[Len(calls)].seen)

\* partial objects handed to setParameters: one or two entries
EntryLists ==
    UNION { { << [name |-> n, value |-> v] >> :
                v \in {PARAMETER_RANGES[n].min - 10,
                       PARAMETER_RANGES[n].max + 10} } :
            n \in ParameterNames }
    \cup
    { << [name |-> controls[i],
          value |-> PARAMETER_RANGES[controls[i]].max + 10],
         [name |-> controls[i + 1],
          value |-> PARAMETER_RANGES[controls[i + 1]].min] >> :
        i \in 1..(Len(controls) - 1) }

---------------------------------------------------------------------------
(* config/constants.ts: animation and interaction constants, thousandths; *)
(* the two heat constants in millionths                                   *)

FADE_IN_SPEED == 100
MOUSE_INTERPOLATION_SPEED == 800
SCROLL_INTERPOLATION_SPEED == 200
MOVEMENT_INTERPOLATION_SPEED == 10
POWER_INTERPOLATION_SPEED == 10
VIDEO_BLEND_SPEED == 100
HEAT_MAX_VALUE == 1300000
TARGET_FPS == 60
POWER_MIN == 800
POWER_MAX == 1000
HOLD_MOVE_TARGET == 950
RELEASE_MOVE_TARGET == 1000
HOLD_POWER_TARGET == 1000
RELEASE_POWER_TARGET == 800
HEAT_CLEANUP_THRESHOLD == 1000
\* DrawRenderer configuration (pixels, plain numbers)
RADIUS_RATIO == 1000
MOBILE_RADIUS == 350
DESKTOP_RADIUS == 220
DIRECTION_MULTIPLIER == 100

\* the time step AppRenderer.loop hands to onUpdate, 1/60 s, counted in
\* sixtieths of a second
FrameDt == 1

---------------------------------------------------------------------------
(* utils/math.ts.  Interpolation factors and animated values are in        *)
(* thousandths; deltaTime is in sixtieths of a second.                     *)

\* lerp(a, b, t) = a + (b - a) * t
lerp(a, b, t) == a + ((b - a) * t) \div 1000

\* a factor that is not cut to [0, 1]
lerpSpeedUncut(base, deltaTime) == (base * deltaTime * 60) \div 60

\* lerpSpeed(base, deltaTime): base * deltaTime * 60 cut to [0, 1]
lerpSpeed(base, deltaTime) ==
    LET n == (base * deltaTime * 60) \div 60
    IN  IF n > 1000 THEN 1000 ELSE IF n < 0 THEN 0 ELSE n

\* clamp(value, min, max) = Math.min(Math.max(value, min), max)
clamp(value, min, max) == MathMin(MathMax(value, min), max)

\* Vector3.lerp on the x and y components
lerpVector(v, target, alpha) ==
    [x |-> lerp(v.x, target.x, alpha), y |-> lerp(v.y, target.y, alpha)]

\* a mapping that leaves the Y axis pointing down
screenToNDCUnflipped(screenX, screenY, bounds) ==
    LET nx == IF bounds.width > 0
              THEN ((screenX - bounds.left) * 1000) \div bounds.width ELSE 500
        ny == IF bounds.height > 0
              THEN ((screenY - bounds.top) * 1000) \div bounds.height ELSE 500
    IN  [x |-> 2 * (nx - 500), y |-> 2 * (ny - 500)]

\* screenToNDC: normalized device coordinates, Y flipped
screenToNDC(screenX, screenY, bounds) ==
    LET nx == IF bounds.width > 0
              THEN ((screenX - bounds.left) * 1000) \div bounds.width ELSE 500
        ny == IF bounds.height > 0
              THEN ((screenY - bounds.top) * 1000) \div bounds.height ELSE 500
    IN  [x |-> 2 * (nx - 500), y |-> 2 * (0 - (ny - 500))]

\* a delta measured from the centre instead of the last position
calculateDeltaFromCentre(currentX, currentY, lastX, lastY, bounds) ==
    LET nx == IF bounds.width > 0
              THEN ((currentX - bounds.left) * 1000) \div bounds.width ELSE 500
        ny == IF bounds.height > 0
              THEN ((currentY - bounds.top) * 1000) \div bounds.height ELSE 500
    IN  [x |-> nx - 500, y |-> ny - 500]

\* calculateMovementDelta: delta in normalized 0..1 space
calculateMovementDelta(currentX, currentY, lastX, lastY, bounds) ==
    LET nx == IF bounds.width > 0
              THEN ((currentX - bounds.left) * 1000) \div bounds.width ELSE 500
        ny == IF bounds.height > 0
              THEN ((currentY - bounds.top) * 1000) \div bounds.height ELSE 500
    IN  [x |-> nx - lastX, y |-> ny - lastY]

---------------------------------------------------------------------------
(* DrawRenderer: the heat-trail accumulator *)

\* the two render targets allocated by the constructor
Surfaces == {"surface1", "surface2"}

\* AppScene.drawRenderer before init() assigns it
NoDrawRenderer == [created |-> FALSE]

\* DrawRenderer constructor and createUniforms
NewDrawRenderer(isMobile) ==
    [ isMobile      |-> isMobile,
      size          |-> 256,
      renderTargetA |-> "surface1",
      renderTargetB |-> "surface2",
      uRadius       |-> [x |-> -8, y |-> 900, z |-> 150],
      uPosition     |-> [x |-> 0, y |-> 0],
      uDirection    |-> [x |-> 0, y |-> 0, z |-> 0, w |-> 0],
      uResolution   |-> [x |-> 0, y |-> 0, z |-> 0],
      uTexture      |-> "null",
      uDraw         |-> 0 ]

\* DrawRenderer.updateDraw
updateDraw(d, value) == [d EXCEPT !.uDraw = value]

\* DrawRenderer.updatePosition
updatePosition(d, position, normalized) ==
    [d EXCEPT !.uPosition =
        IF normalized
        THEN [x |-> (500 * position.x) \div 1000 + 500,
              y |-> (500 * position.y) \div 1000 + 500]
        ELSE [x |-> position.x, y |-> position.y]]

\* DrawRenderer.updateDirection
updateDirection(d, direction) ==
    [d EXCEPT !.uDirection =
        [x |-> direction.x, y |-> direction.y, z |-> 0,
         w |-> DIRECTION_MULTIPLIER]]

\* a resize that allocates its render targets anew
resizeReallocating(d, width, height) ==
    LET baseRadius == IF d.isMobile THEN MOBILE_RADIUS ELSE DESKTOP_RADIUS
        radius == (baseRadius * height) \div RADIUS_RATIO
    IN  [d EXCEPT !.uRadius.z = radius,
                  !.uResolution = [x |-> width, y |-> height, z |-> 1],
                  !.size = width,
                  !.renderTargetA = "surface1",
                  !.renderTargetB = "surface2"]

\* DrawRenderer.resize: only the radius and resolution uniforms
resize(d, width, height) ==
    LET baseRadius == IF d.isMobile THEN MOBILE_RADIUS ELSE DESKTOP_RADIUS
        radius == (baseRadius * height) \div RADIUS_RATIO
    IN  [d EXCEPT !.uRadius.z = radius,
                  !.uResolution = [x |-> width, y |-> height, z |-> 1]]

\* DrawRenderer.getTexture
getTexture(d) == d.renderTargetB

\* DrawRenderer.render: bind the previous output as uTexture, draw into
\* renderTargetA, then swap the two targets.  `pass` is the pass issued:
\* the surface sampled, the surface written, the uniforms it ran with.
renderNoSwap(d) ==
    LET bound == [d EXCEPT !.uTexture = d.renderTargetB]
    IN  [ draw |-> bound,
          pass |-> [ issued |-> TRUE, read |-> bound.uTexture,
                     write |-> bound.renderTargetA,
                     direction |-> bound.uDirection, heat |-> bound.uDraw ] ]
renderInPlace(d) ==
    LET bound == [d EXCEPT !.uTexture = d.renderTargetB]
    IN  [ draw |-> [bound EXCEPT !.renderTargetA = bound.renderTargetB,
                                 !.renderTargetB = bound.renderTargetA],
          pass |-> [ issued |-> TRUE, read |-> bound.uTexture,
                     write |-> bound.renderTargetB,
                     direction |-> bound.uDirection, heat |-> bound.uDraw ] ]
render(d) ==
    LET bound == [d EXCEPT !.uTexture = d.renderTargetB]
    IN  [ draw |-> [bound EXCEPT !.renderTargetA = bound.renderTargetB,
                                 !.renderTargetB = bound.renderTargetA],
          pass |-> [ issued |-> TRUE, read |-> bound.uTexture,
                     write |-> bound.renderTargetA,
                     direction |-> bound.uDirection, heat |-> bound.uDraw ] ]

\* no accumulator pass
NoPass ==
    [ issued |-> FALSE, read |-> "null", write |-> "null",
      direction |-> [x |-> 0, y |-> 0, z |-> 0, w |-> 0], heat |-> 0 ]

---------------------------------------------------------------------------
(* InteractionManager.  Its handlers call back into the scene              *)
(* (setupInteractionManager), so they act on the triple H = [inter, av,    *)
(* draw]: the manager, the scene's animation values, the draw renderer.    *)
(* H.reports lists the position callbacks made while one event is handled  *)
(* and H.changes the arguments of all onInteractionChange calls so far.    *)

Origin == [x |-> 0, y |-> 0]

\* InteractionManager constructor
NewInteractionManager ==
    [ created          |-> TRUE,
      mouseState       |-> [position |-> Origin, target |-> Origin],
      interactionState |-> [hold |-> FALSE, heatUp |-> 0,
                            lastNX |-> 500, lastNY |-> 500] ]

\* the field before AppScene.setupInteractionManager has run
NoInteractionManager == [NewInteractionManager EXCEPT !.created = FALSE]

\* the bounding rectangle of the container, which AppRenderer.rect caches
\* and getBoundingClientRect() returns to the handlers (pixels); the hit
\* region covers the container
ViewportRect == [left |-> 20, top |-> 10, width |-> 200, height |-> 100]

\* pointer positions (clientX, clientY) inside the hit region: its top-left
\* corner, its centre, an inner point
InsidePoints == { [x |-> 20, y |-> 10], [x |-> 120, y |-> 60],
                  [x |-> 170, y |-> 35] }
\* pointer positions seen by the window listener only: the bottom-right
\* corner (the first pixel past the region) and a point beside it
OutsidePoints == { [x |-> 220, y |-> 110], [x |-> 250, y |-> 50] }

\* the scene's onPositionUpdate callback
onPositionUpdate(H, position, direction) ==
    [H EXCEPT !.av.mouse.target = position,
              !.draw = updateDirection(H.draw, direction)]

\* the scene's onInteractionChange callback
onInteractionChange(H, isInteracting) ==
    [H EXCEPT !.av.move.target =
                  IF isInteracting THEN HOLD_MOVE_TARGET ELSE RELEASE_MOVE_TARGET,
              !.av.scrollAnimation.power.target =
                  IF isInteracting THEN HOLD_POWER_TARGET ELSE RELEASE_POWER_TARGET,
              !.changes = Append(@, isInteracting)]

\* InteractionManager.updatePosition and updateGlobalPosition: the same
\* statements, on the hit region's and on the container's bounds
updatePositionFrom(H, clientX, clientY, bounds) ==
    LET ndc   == screenToNDC(clientX, clientY, bounds)
        delta == calculateMovementDelta(clientX, clientY,
                     H.inter.interactionState.lastNX,
                     H.inter.interactionState.lastNY, bounds)
        moved == [H EXCEPT !.inter.mouseState.target = ndc]
        told  == onPositionUpdate(moved, ndc, delta)
        last  == [x |-> H.inter.interactionState.lastNX,
                  y |-> H.inter.interactionState.lastNY]
    IN  [told EXCEPT
            !.reports = Append(@, [position |-> ndc, direction |-> delta,
                                   last |-> last]),
            !.inter.interactionState.lastNX =
                IF bounds.width > 0
                THEN ((clientX - bounds.left) * 1000) \div bounds.width ELSE 500,
            !.inter.interactionState.lastNY =
                IF bounds.height > 0
                THEN ((clientY - bounds.top) * 1000) \div bounds.height ELSE 500]

\* a setInteracting that calls back on every event
setInteractingEveryEvent(H, isInteracting) ==
    onInteractionChange(
        [H EXCEPT !.inter.interactionState.hold = isInteracting],
        isInteracting)

\* InteractionManager.setInteracting: the callback fires on a change only
setInteracting(H, isInteracting) ==
    IF H.inter.interactionState.hold # isInteracting
    THEN onInteractionChange(
             [H EXCEPT !.inter.interactionState.hold = isInteracting],
             isInteracting)
    ELSE H

\* handlePointerMove (hit region and container listeners)
handlePointerMove(H, clientX, clientY, hitBounds) ==
    setInteracting(updatePositionFrom(H, clientX, clientY, hitBounds), TRUE)

\* handleGlobalPointerMove (window listener)
handleGlobalPointerMove(H, clientX, clientY, containerBounds) ==
    setInteracting(updatePositionFrom(H, clientX, clientY, containerBounds), TRUE)

\* handlePointerDown (hit region and container listeners)
handlePointerDown(H, clientX, clientY, hitBounds) ==
    setInteracting(updatePositionFrom(H, clientX, clientY, hitBounds), TRUE)

\* handlePointerEnter: the position only
handlePointerEnter(H, clientX, clientY, hitBounds) ==
    updatePositionFrom(H, clientX, clientY, hitBounds)

\* handlePointerUp
handlePointerUp(H) == setInteracting(H, FALSE)

\* handlePointerLeave
handlePointerLeave(H) == setInteracting(H, FALSE)

\* InteractionManager.updateMousePosition
updateMousePosition(inter, lerpFactor) ==
    [inter EXCEPT !.mouseState.position =
        lerpVector(inter.mouseState.position, inter.mouseState.target, lerpFactor)]

---------------------------------------------------------------------------
(* The video element and the play button.  Times are in hundredths of a    *)
(* second.                                                                 *)

LOOP_START_TIME == 295
LOOP_END_TIME   == 1195

\* AppScene.video before createVideoElement assigns it
NoVideo ==
    [ created |-> FALSE, paused |-> TRUE, currentTime |-> 0,
      promise |-> "none", playCalls |-> 0, raised |-> FALSE,
      button |-> "unset", toggles |-> 0, readyRuns |-> 0,
      lastReject |-> [happened |-> FALSE, ready |-> FALSE, frameAt |-> 0],
      lastToggle |-> [happened |-> FALSE, pausedBefore |-> FALSE,
                      played |-> FALSE] ]

\* createVideoElement: a paused element at time 0, autoplay off
NewVideoElement == [NoVideo EXCEPT !.created = TRUE]

\* a rejected play() promise with no rejection handler: the rejection
\* surfaces as an error
rejectedUncaught(v, ready, atFrame) ==
    [v EXCEPT !.promise = "rejected", !.raised = TRUE,
              !.lastReject = [happened |-> TRUE, ready |-> ready,
                              frameAt |-> atFrame]]

\* video.play().catch(() => {}): the rejection is swallowed.  `ready` and
\* `atFrame` note the readiness flags and the frame count at that moment.
rejectedCaught(v, ready, atFrame) ==
    [v EXCEPT !.promise = "rejected",
              !.lastReject = [happened |-> TRUE, ready |-> ready,
                              frameAt |-> atFrame]]

\* video.play(): refused at once when playback is not allowed (paused is
\* left as it is), otherwise paused becomes false and the promise is
\* pending; a play() that finds a pending promise leaves it pending
play(v, allowed, ready, atFrame) ==
    IF allowed
    THEN [v EXCEPT !.paused = FALSE, !.promise = "pending",
                   !.playCalls = @ + 1]
    ELSE rejectedCaught([v EXCEPT !.playCalls = @ + 1], ready, atFrame)

\* video.pause(): a pending play() promise is rejected
pause(v, ready, atFrame) ==
    IF v.promise = "pending"
    THEN rejectedCaught([v EXCEPT !.paused = TRUE], ready, atFrame)
    ELSE [v EXCEPT !.paused = TRUE]

\* AppScene.updatePlayButtonState
updatePlayButtonState(v) ==
    IF ~v.created THEN v
    ELSE [v EXCEPT !.button = IF v.paused THEN "Play" ELSE "Pause"]

\* AppScene.handleToggleVideo
handleToggleVideo(v, allowed, ready, atFrame) ==
    IF ~v.created THEN v
    ELSE
      LET toggled == IF v.paused THEN play(v, allowed, ready, atFrame)
                     ELSE pause(v, ready, atFrame)
      IN  updatePlayButtonState(
            [toggled EXCEPT
               !.toggles = @ + 1,
               !.lastToggle = [happened |-> TRUE,
                               pausedBefore |-> v.paused,
                               played |-> toggled.playCalls > v.playCalls]])

\* a loop that lets the end time itself pass
updateVideoLoopPastEnd(v) ==
    IF v.currentTime > LOOP_END_TIME
    THEN [v EXCEPT !.currentTime = LOOP_START_TIME]
    ELSE v

\* AppScene.updateVideoLoop (its videoReady guard is in update)
updateVideoLoop(v) ==
    IF v.currentTime >= LOOP_END_TIME
    THEN [v EXCEPT !.currentTime = LOOP_START_TIME]
    ELSE v

---------------------------------------------------------------------------
(* AppScene (refactored scene): the per-frame update.  The update acts on  *)
(* S = [av, heatUp, draw, inter, tm, mesh]: animation values, heat, draw   *)
(* renderer, interaction manager, thermal material, heat mesh.             *)

\* AppScene.animationValues as the field initializer sets them
InitialAnimationValues ==
    [ blendVideo |-> [value |-> 0, target |-> 0],
      amount     |-> [value |-> 0, target |-> 0],
      mouse      |-> [position |-> Origin, target |-> Origin],
      move       |-> [value |-> 1000, target |-> 1000],
      scrollAnimation |->
        [ opacity |-> [value |-> 1000, target |-> 1000],
          scale   |-> [value |-> 1000, target |-> 1000],
          power   |-> [value |-> 800,  target |-> 800] ] ]

\* an update that steps the power like the fade-in: neither its factor nor
\* its result is clamped
updateAnimationValuesFreePower(av, deltaTime) ==
    LET position == lerpVector(av.mouse.position, av.mouse.target,
                        lerpSpeed(MOUSE_INTERPOLATION_SPEED, deltaTime))
        move     == lerp(av.move.value, av.move.target,
                        lerpSpeed(MOVEMENT_INTERPOLATION_SPEED, deltaTime))
        power    == lerp(av.scrollAnimation.power.value,
                         av.scrollAnimation.power.target,
                         (POWER_INTERPOLATION_SPEED * deltaTime * TARGET_FPS) \div 60)
        opacity  == lerp(av.scrollAnimation.opacity.value,
                        (av.scrollAnimation.opacity.target * move) \div 1000,
                        lerpSpeed(SCROLL_INTERPOLATION_SPEED, deltaTime))
        scale    == lerp(av.scrollAnimation.scale.value,
                        av.scrollAnimation.scale.target,
                        lerpSpeed(SCROLL_INTERPOLATION_SPEED, deltaTime))
        amount   == IF av.amount.value * 100 < 99999
                    THEN lerp(av.amount.value, av.amount.target,
                              (FADE_IN_SPEED * deltaTime * TARGET_FPS) \div 60)
                    ELSE av.amount.value
        blend    == IF videoReady
                    THEN lerp(av.blendVideo.value, av.blendVideo.target,
                              lerpSpeed(VIDEO_BLEND_SPEED, deltaTime))
                    ELSE av.blendVideo.value
    IN  [av EXCEPT !.mouse.position = position,
                   !.move.value = move,
                   !.scrollAnimation.power.value = power,
                   !.scrollAnimation.opacity.value = opacity,
                   !.scrollAnimation.scale.value = scale,
                   !.amount.value = amount,
                   !.blendVideo.value = blend]

\* AppScene.updateAnimationValues
updateAnimationValues(av, deltaTime) ==
    LET position == lerpVector(av.mouse.position, av.mouse.target,
                        lerpSpeed(MOUSE_INTERPOLATION_SPEED, deltaTime))
        move     == lerp(av.move.value, av.move.target,
                        lerpSpeed(MOVEMENT_INTERPOLATION_SPEED, deltaTime))
        power    == clamp(lerp(av.scrollAnimation.power.value,
                               av.scrollAnimation.power.target,
                               lerpSpeed(POWER_INTERPOLATION_SPEED, deltaTime)),
                          POWER_MIN, POWER_MAX)
        opacity  == lerp(av.scrollAnimation.opacity.value,
                        (av.scrollAnimation.opacity.target * move) \div 1000,
                        lerpSpeed(SCROLL_INTERPOLATION_SPEED, deltaTime))
        scale    == lerp(av.scrollAnimation.scale.value,
                        av.scrollAnimation.scale.target,
                        lerpSpeed(SCROLL_INTERPOLATION_SPEED, deltaTime))
        amount   == IF av.amount.value * 100 < 99999
                    THEN lerp(av.amount.value, av.amount.target,
                              (FADE_IN_SPEED * deltaTime * TARGET_FPS) \div 60)
                    ELSE av.amount.value
        blend    == IF videoReady
                    THEN lerp(av.blendVideo.value, av.blendVideo.target,
                              lerpSpeed(VIDEO_BLEND_SPEED, deltaTime))
                    ELSE av.blendVideo.value
    IN  [av EXCEPT !.mouse.position = position,
                   !.move.value = move,
                   !.scrollAnimation.power.value = power,
                   !.scrollAnimation.opacity.value = opacity,
                   !.scrollAnimation.scale.value = scale,
                   !.amount.value = amount,
                   !.blendVideo.value = blend]

\* AppScene.updateHeatInteraction.  Reading this.interactionManager or
\* this.parameterController while it is still undefined throws a TypeError.
\* Heat is accumulated while hold is set and capped, pushed to the draw
\* renderer, then multiplied by heatDecay and cleared below the threshold.
updateHeatKeepsHeld(S, deltaTime) ==
    IF ~videoReady THEN [state |-> S, threw |-> FALSE]
    ELSE IF ~S.inter.created \/ parameterController # "created"
    THEN [state |-> S, threw |-> TRUE]
    ELSE
      LET positioned == updatePosition(S.draw, S.inter.mouseState.position, TRUE)
          heated == IF S.inter.interactionState.hold
                    THEN MathMin(S.heatUp
                                 + S.params.heatSensitivity * 10000
                                   * ((deltaTime * TARGET_FPS) \div 60),
                                 HEAT_MAX_VALUE)
                    ELSE S.heatUp
          cooled == IF S.inter.interactionState.hold THEN heated
                    ELSE (heated * S.params.heatDecay) \div 100
      IN  [ state |->
              [S EXCEPT
                 !.draw = updateDraw(positioned, heated),
                 !.heatUp = IF cooled < HEAT_CLEANUP_THRESHOLD THEN 0 ELSE cooled,
                 !.inter = updateMousePosition(S.inter,
                               lerpSpeed(MOUSE_INTERPOLATION_SPEED, deltaTime))],
            threw |-> FALSE ]
updateHeatNoCleanup(S, deltaTime) ==
    IF ~videoReady THEN [state |-> S, threw |-> FALSE]
    ELSE IF ~S.inter.created \/ parameterController # "created"
    THEN [state |-> S, threw |-> TRUE]
    ELSE
      LET positioned == updatePosition(S.draw, S.inter.mouseState.position, TRUE)
          heated == IF S.inter.interactionState.hold
                    THEN MathMin(S.heatUp
                                 + S.params.heatSensitivity * 10000
                                   * ((deltaTime * TARGET_FPS) \div 60),
                                 HEAT_MAX_VALUE)
                    ELSE S.heatUp
          cooled == (heated * S.params.heatDecay) \div 100
      IN  [ state |->
              [S EXCEPT
                 !.draw = updateDraw(positioned, heated),
                 !.heatUp = cooled,
                 !.inter = updateMousePosition(S.inter,
                               lerpSpeed(MOUSE_INTERPOLATION_SPEED, deltaTime))],
            threw |-> FALSE ]
\* a heat update whose gain is scaled by the reactivity parameter
updateHeatScaledByReactivity(S, deltaTime) ==
    IF ~videoReady THEN [state |-> S, threw |-> FALSE]
    ELSE IF ~S.inter.created \/ parameterController # "created"
    THEN [state |-> S, threw |-> TRUE]
    ELSE
      LET positioned == updatePosition(S.draw, S.inter.mouseState.position, TRUE)
          heated == IF S.inter.interactionState.hold
                    THEN MathMin(S.heatUp
                                 + ((S.params.heatSensitivity
                                     * S.params.reactivity) \div 100) * 10000
                                   * ((deltaTime * TARGET_FPS) \div 60),
                                 HEAT_MAX_VALUE)
                    ELSE S.heatUp
          cooled == (heated * S.params.heatDecay) \div 100
      IN  [ state |->
              [S EXCEPT
                 !.draw = updateDraw(positioned, heated),
                 !.heatUp = IF cooled < HEAT_CLEANUP_THRESHOLD THEN 0 ELSE cooled,
                 !.inter = updateMousePosition(S.inter,
                               lerpSpeed(MOUSE_INTERPOLATION_SPEED, deltaTime))],
            threw |-> FALSE ]
updateHeatInteraction(S, deltaTime) ==
    IF ~videoReady THEN [state |-> S, threw |-> FALSE]
    ELSE IF ~S.inter.created \/ parameterController # "created"
    THEN [state |-> S, threw |-> TRUE]
    ELSE
      LET positioned == updatePosition(S.draw, S.inter.mouseState.position, TRUE)
          heated == IF S.inter.interactionState.hold
                    THEN MathMin(S.heatUp
                                 + S.params.heatSensitivity * 10000
                                   * ((deltaTime * TARGET_FPS) \div 60),
                                 HEAT_MAX_VALUE)
                    ELSE S.heatUp
          cooled == (heated * S.params.heatDecay) \div 100
      IN  [ state |->
              [S EXCEPT
                 !.draw = updateDraw(positioned, heated),
                 !.heatUp = IF cooled < HEAT_CLEANUP_THRESHOLD THEN 0 ELSE cooled,
                 !.inter = updateMousePosition(S.inter,
                               lerpSpeed(MOUSE_INTERPOLATION_SPEED, deltaTime))],
            threw |-> FALSE ]

\* an update that pushes the animated power instead of the stored one
updateThermalMaterialAnimatedPower(S) ==
    IF ~S.tm.created THEN S
    ELSE [S EXCEPT !.tm.opacity    = S.av.scrollAnimation.opacity.value,
                   !.tm.amount     = S.av.amount.value,
                   !.tm.power      = S.av.scrollAnimation.power.value \div 10,
                   !.tm.blendVideo = S.params.videoBlendAmount]

\* AppScene.updateThermalMaterial (the random uniform rnd feeds only the
\* shader and is left out)
updateThermalMaterial(S) ==
    IF ~S.tm.created THEN S
    ELSE [S EXCEPT !.tm.opacity    = S.av.scrollAnimation.opacity.value,
                   !.tm.amount     = S.av.amount.value,
                   !.tm.power      = S.params.contrastPower,
                   !.tm.blendVideo = S.params.videoBlendAmount]

\* AppScene.updateMeshTransform
updateMeshTransform(S) ==
    IF ~S.mesh.created THEN S
    ELSE [S EXCEPT !.mesh.scale = S.av.scrollAnimation.scale.value]

\* AppScene.updateDrawRenderer: the direction signal is reset to zero
updateDrawRenderer(S) ==
    [S EXCEPT !.draw = updateDirection(S.draw, Origin)]

\* the rest of update() once the heat update has returned `heat`
updateAfterHeat(heat) ==
    IF heat.threw THEN [state |-> heat.state, threw |-> TRUE]
    ELSE [ state |-> updateDrawRenderer(
                       updateMeshTransform(
                         updateThermalMaterial(heat.state))),
           threw |-> FALSE ]

\* AppScene.update: a guarded no-op until textureReady; a throw leaves the
\* writes made before it in place
update(S, deltaTime) ==
    IF ~textureReady THEN [state |-> S, threw |-> FALSE]
    ELSE
      CHOOSE done \in
        { updateAfterHeat(heat) :
            heat \in { updateHeatInteraction(animated, deltaTime) :
                         animated \in { [S EXCEPT
                             !.av = updateAnimationValues(S.av, deltaTime),
                             !.video = IF videoReady THEN updateVideoLoop(@)
                                       ELSE @] } } } :
        TRUE

---------------------------------------------------------------------------
(* The viewport and the camera.  Lengths of the camera are in thousandths. *)

\* the widths and heights the container is resized to
Sizes == {100, 200, 400}

\* AppRenderer as main leaves it: scene, camera and onUpdate set, rect
\* measured by the constructor
NewAppRenderer ==
    [scene |-> TRUE, camera |-> TRUE, onUpdate |-> TRUE,
     rect |-> [width |-> ViewportRect.width, height |-> ViewportRect.height]]

\* no onResize() call so far
NoOnResize ==
    [calls |-> 0, width |-> 0, height |-> 0,
     uResolution |-> [x |-> 0, y |-> 0, z |-> 0], uRadiusZ |-> 0,
     isMobile |-> FALSE]

\* the orthographic camera of the AppScene constructor (CAMERA_CONFIG)
NewCamera ==
    [left |-> -500, right |-> 500, top |-> 500, bottom |-> -500,
     resized |-> NoOnResize]

\* AppScene.onResize: the camera bounds, nothing else
onResize(c, width, height) ==
    LET aspectRatio  == (1000 * width) \div height
        cameraWidth  == IF aspectRatio >= 1000 THEN aspectRatio ELSE 1000
        cameraHeight == IF aspectRatio >= 1000 THEN 1000
                        ELSE (1000 * 1000) \div aspectRatio
    IN  [c EXCEPT !.left = (-cameraWidth) \div 2, !.right = cameraWidth \div 2,
                  !.top = cameraHeight \div 2,
                  !.bottom = (-cameraHeight) \div 2]

\* the camera when onResize(width, height) returns, with the accumulator's
\* uniforms `d` as they are at that moment
afterOnResize(c, width, height, d) ==
    [onResize(c, width, height) EXCEPT
        !.resized = [calls |-> c.resized.calls + 1,
                     width |-> width, height |-> height,
                     uResolution |-> d.uResolution, uRadiusZ |-> d.uRadius.z,
                     isMobile |-> d.isMobile]]

---------------------------------------------------------------------------
(* AppRenderer.loop: one frame callback *)

\* no compositor pass
NoComposite ==
    [issued |-> FALSE, material |-> FALSE, drawMap |-> "undefined",
     current |-> "undefined"]

\* no resize() of the accumulator
NoResize ==
    [issued |-> FALSE, width |-> 0, height |-> 0,
     before |-> NoDrawRenderer, after |-> NoDrawRenderer]

\* the record of a frame callback that has not run
NoFrame ==
    [steps |-> << >>, threw |-> FALSE, before |-> "undefined",
     pass |-> NoPass, composite |-> NoComposite,
     heat |-> [ready |-> FALSE, hold |-> FALSE, before |-> 0, after |-> 0],
     resize |-> NoResize, dt |-> 0,
     video |-> [before |-> 0, after |-> 0], calls |-> 0]

\* loop(): onUpdate, then the accumulator pass (resize and render), then
\* the compositor pass renderer.render(scene, camera).  `steps` lists what
\* the callback did, in order; `composite` records the drawMap uniform and
\* getTexture() at the moment the compositor pass is issued; `heat` records
\* the stored heat before and after the callback, and whether the heat
\* update ran (video ready) and with which hold flag.
loopAfterUpdate(S, updated) ==
    LET called  == IF appRenderer.onUpdate THEN << "update" >> ELSE << >>
        heat    == [ ready  |-> appRenderer.onUpdate /\ textureReady
                                /\ videoReady /\ ~updated.threw,
                     hold   |-> S.inter.interactionState.hold,
                     before |-> S.heatUp,
                     after  |-> updated.state.heatUp ]
        played  == [ before |-> S.video.currentTime,
                     after  |-> updated.state.video.currentTime ]
    IN  IF updated.threw \/ ~(appRenderer.scene /\ appRenderer.camera)
        THEN [ state |-> updated.state,
               frame |-> [NoFrame EXCEPT !.steps = called,
                                         !.dt = FrameDt,
                                         !.video = played,
                                         !.calls = nCalls,
                                         !.threw = updated.threw,
                                         !.heat = heat] ]
        ELSE
          LET resized  == resize(updated.state.draw, appRenderer.rect.width,
                                 appRenderer.rect.height)
              rendered == render(resized)
              after    == [updated.state EXCEPT !.draw = rendered.draw]
          IN  [ state |-> after,
                frame |->
                  [ steps  |-> called \o << "accumulator", "compositor" >>,
                    threw  |-> FALSE,
                    before |-> getTexture(updated.state.draw),
                    pass   |-> rendered.pass,
                    heat   |-> heat,
                    dt     |-> FrameDt,
                    video  |-> played,
                    calls  |-> nCalls,
                    resize |-> [ issued |-> TRUE,
                                 width  |-> appRenderer.rect.width,
                                 height |-> appRenderer.rect.height,
                                 before |-> updated.state.draw,
                                 after  |-> resized ],
                    composite |->
                      [ issued   |-> TRUE,
                        material |-> after.tm.created,
                        drawMap  |-> after.tm.drawMap,
                        current  |-> getTexture(after.draw) ] ] ]

\* loop(): the onUpdate callback runs first, the two passes follow
loop(S) ==
    CHOOSE done \in
      { loopAfterUpdate(S, updated) :
          updated \in { IF appRenderer.onUpdate THEN update(S, FrameDt)
                        ELSE [state |-> S, threw |-> FALSE] } } :
      TRUE

\* the legacy scene's fields after construction
NewLegacyScene ==
    [videoReady |-> FALSE, hold |-> FALSE, heatUp |-> 0, uDraw |-> 0,
     frames |-> 0]

\* both asset loads as init() starts them: one request each
LoadsStarted ==
    [mask |-> "loading", video |-> "loading", maskRequests |-> 1,
     videoRequests |-> 1]

\* no asset load before init() is called
NoLoads ==
    [mask |-> "idle", video |-> "idle", maskRequests |-> 0,
     videoRequests |-> 0]

\* no dispose() call so far
NoDisposal ==
    [calls |-> 0, threw |-> FALSE, first |-> "none", settled |-> FALSE,
     before |-> << >>, after |-> << >>]

---------------------------------------------------------------------------
(* The document.  The scene's constructor, init() and the components they  *)
(* build look their elements up by selector.                               *)

\* the controls of ParameterController.setupControls, in its order
Controls ==
    << [id |-> "#effect-intensity", valueId |-> "#intensity-value",
        param |-> "effectIntensity"],
       [id |-> "#contrast-power", valueId |-> "#power-value",
        param |-> "contrastPower"],
       [id |-> "#saturation", valueId |-> "#saturation-value",
        param |-> "colorSaturation"],
       [id |-> "#heat-sensitivity", valueId |-> "#heat-value",
        param |-> "heatSensitivity"],
       [id |-> "#video-blend", valueId |-> "#blend-value",
        param |-> "videoBlendAmount"],
       [id |-> "#gradient-shift", valueId |-> "#gradient-value",
        param |-> "gradientShift"],
       [id |-> "#heat-decay", valueId |-> "#decay-value",
        param |-> "heatDecay"],
       [id |-> "#interaction-radius", valueId |-> "#radius-value",
        param |-> "interactionRadius"],
       [id |-> "#reactivity", valueId |-> "#reactivity-value",
        param |-> "reactivity"] >>

\* the elements the scene and its components look up
RequiredElements ==
    {".canvas-wrapper", "#play-pause-btn", ".interaction-area",
     "#hud-toggle", "#hud-content", "#reset-params"}
      \cup { Controls[i].id : i \in 1..Len(Controls) }
      \cup { Controls[i].valueId : i \in 1..Len(Controls) }

\* the step attributes of the range inputs, in hundredths
SliderSteps ==
    [ effectIntensity   |-> 10,
      contrastPower     |-> 10,
      colorSaturation   |-> 10,
      heatSensitivity   |-> 10,
      videoBlendAmount  |-> 10,
      gradientShift     |-> 5,
      heatDecay         |-> 1,
      interactionRadius |-> 10,
      reactivity        |-> 10 ]

\* the magnitudes, in hundredths, that end in 5 and whose double lies below
\* the decimal: toFixed(1) rounds these down (0.95.toFixed(1) is "0.9")
BelowHalf ==
    {15, 35, 85, 95, 115, 145, 165, 195, 205, 215, 255, 265, 305, 315,
     355, 365}

\* Number.prototype.toFixed(1): the number the text denotes, in hundredths
toFixed1(value) ==
    LET m == IF value < 0 THEN 0 - value ELSE value
        t == IF m % 10 = 5 /\ m \in BelowHalf THEN m \div 10
             ELSE (m + 5) \div 10
    IN  IF value < 0 THEN 0 - t * 10 ELSE t * 10

\* assigning to the value of a range input: the browser brings the number
\* into the input's min/max and onto its step grid
sanitized(name, value) ==
    LET r       == PARAMETER_RANGES[name]
        step    == SliderSteps[name]
        inRange == MathMax(r.min, MathMin(r.max, value))
        snapped == r.min + (((inRange - r.min) * 2 + step) \div (2 * step)) * step
    IN  MathMin(snapped, r.max)

\* a control that shows the document's markup
MarkupShown ==
    [ name \in ParameterNames |->
        [ slider  |-> DEFAULT_PARAMETERS[name],
          display |-> IF name = "heatDecay" THEN 95
                      ELSE toFixed1(DEFAULT_PARAMETERS[name]) ] ]

\* the setValue of setupParameterControl: slider.value = value.toString(),
\* valueDisplay.textContent = value.toFixed(1)
setValue(shown, name, value) ==
    [ shown EXCEPT ![name] =
        [ slider  |-> sanitized(name, value),
          display |-> toFixed1(value) ] ]

\* the input listener of setupParameterControl: the slider holds what the
\* user chose, the display follows
updateValue(shown, name, value) ==
    [ shown EXCEPT ![name] =
        [ slider  |-> value,
          display |-> toFixed1(value) ] ]

\* ParameterController.setParameters: after each entry's setParameter the
\* entry's control is given the supplied value
RECURSIVE shownAfterSetParameters(_, _)
shownAfterSetParameters(shown, entries) ==
    IF entries = << >> THEN shown
    ELSE shownAfterSetParameters(
           setValue(shown, Head(entries).name, Head(entries).value),
           Tail(entries))

\* ParameterController.resetToDefaults: every control is given its default
shownAfterReset(shown) ==
    LET step[i \in 0..Len(controls)] ==
          IF i = 0 THEN shown
          ELSE setValue(step[i - 1], controls[i],
                        DEFAULT_PARAMETERS[controls[i]])
    IN  step[Len(controls)]

\* a document with these elements, before the scene is constructed:
\* `bound` are the elements the program holds or listens on, `hit` is the
\* element the interaction manager takes its pointer events from, `shown`
\* what each slider and its value display show
NewDocument(present) ==
    [present |-> present, bound |-> {}, constructed |-> "no",
     hit |-> "none", threw |-> FALSE, shown |-> MarkupShown]

\* getRequiredElement, after which the caller keeps or listens on the
\* element; a throw ends the caller
getRequiredElement(D, selector) ==
    IF D.threw THEN D
    ELSE IF selector \in D.present
         THEN [D EXCEPT !.bound = @ \cup {selector}]
         ELSE [D EXCEPT !.threw = TRUE]

\* AppScene.setupDOMReferences, setupPlayPauseButton
setupDOMReferences(D) ==
    getRequiredElement(getRequiredElement(D, ".canvas-wrapper"),
                       "#play-pause-btn")

\* the AppScene constructor
constructScene(D) ==
    LET looked == setupDOMReferences(D)
    IN  [looked EXCEPT !.constructed = IF looked.threw THEN "threw" ELSE "done"]

\* AppScene.setupInteractionManager: querySelector with a cast; the
\* InteractionManager constructor takes `hitContainer || container`
setupInteractionManager(D) ==
    IF D.threw THEN D
    ELSE IF ".interaction-area" \in D.present
         THEN [D EXCEPT !.bound = @ \cup {".interaction-area"},
                        !.hit = ".interaction-area"]
         ELSE [D EXCEPT !.hit = "#webgl"]

\* setupParameterControl: the slider, then its value display, then the
\* initial value (the controller's parameters are the defaults)
setupParameterControl(D, control) ==
    LET found == getRequiredElement(getRequiredElement(D, control.id),
                                    control.valueId)
    IN  IF found.threw THEN found
        ELSE [found EXCEPT !.shown =
                setValue(@, control.param, DEFAULT_PARAMETERS[control.param])]

RECURSIVE setupControlsFrom(_, _)
\* ParameterController.setupControls from the i-th control on
setupControlsFrom(D, i) ==
    IF i > Len(Controls) \/ D.threw THEN D
    ELSE setupControlsFrom(setupParameterControl(D, Controls[i]), i + 1)

\* ParameterController.setupHUD
setupHUD(D) ==
    getRequiredElement(
        getRequiredElement(getRequiredElement(D, "#hud-toggle"),
                           "#hud-content"),
        "#reset-params")

\* the ParameterController constructor
newParameterController(D) == setupHUD(setupControlsFrom(D, 1))

\* init() after loadAssets: setupInteractionManager, then
\* setupParameterController
setupComponents(D) == newParameterController(setupInteractionManager(D))

\* the document of index.html once the scene is constructed
ConstructedDocument == constructScene(NewDocument(RequiredElements))

---------------------------------------------------------------------------
(* Initial state: main has built the AppRenderer and the scene, connected  *)
(* them, and called init(), which has constructed the draw renderer,       *)
(* started both asset loads and is awaiting them.  No frame has run.       *)

\* at most this many frame callbacks in a behaviour
MaxFrames == 3

Init ==
    /\ parameterController = "undefined"
    /\ parameters = DEFAULT_PARAMETERS
    /\ changeLog = << >>
    /\ lastCall = [op |-> "none", name |-> "none", value |-> 0,
                   before |-> DEFAULT_PARAMETERS]
    /\ nCalls = 0
    /\ legacyParameters = DEFAULT_PARAMETERS
    /\ legacyScene = NewLegacyScene
    /\ initState = "awaiting"
    /\ maskTexture = "undefined"
    /\ videoTexture = "undefined"
    /\ videoReady = FALSE
    /\ textureReady = FALSE
    /\ assetLoad = LoadsStarted
    /\ released = {}
    /\ disposal = NoDisposal
    /\ video = NewVideoElement
    /\ dom = ConstructedDocument
    /\ heatUp = 0
    /\ animationValues = InitialAnimationValues
    /\ thermalMaterial = NoThermalMaterial
    /\ heatMesh = [created |-> FALSE, scale |-> 1000]
    /\ interaction = NoInteractionManager
    /\ drawRenderer \in { NewDrawRenderer(isMobile) : isMobile \in BOOLEAN }
    /\ camera = NewCamera
    /\ appRenderer = NewAppRenderer
    /\ loopAlive = TRUE
    /\ frame = 0
    /\ lastFrame = NoFrame
    /\ texHistory = << >>
    /\ sinceEvent = [any |-> FALSE, delta |-> Origin, passes |-> 0,
                     count |-> 0, frameAt |-> 0, kind |-> "none",
                     point |-> Origin,
                     holdBefore |-> FALSE, reports |-> << >>,
                     changes |-> << >>, fired |-> 0,
                     prior |-> [any |-> FALSE, point |-> Origin]]

---------------------------------------------------------------------------
(* Asset loading and the rest of init() *)

\* The mask texture loads: loadTexture resolves, loadAssets stores the
\* texture, and init() continues in the same microtask run with
\* createThermalEffect, setupInteractionManager, setupParameterController
\* and onResize, then resolves.
TextureLoaded ==
    /\ initState = "awaiting"
    /\ assetLoad.mask = "loading"
    /\ assetLoad' = [assetLoad EXCEPT !.mask = "loaded"]
    /\ maskTexture' = "maskTexture"
    /\ thermalMaterial' = createUniforms(getTexture(drawRenderer),
                                         videoTexture, "maskTexture")
    /\ heatMesh' = [created |-> TRUE, scale |-> 1000]
    /\ interaction' = NewInteractionManager
    /\ dom' = setupComponents(dom)
    /\ parameterController' = IF dom'.threw THEN parameterController
                               ELSE "created"
    /\ parameters' = DEFAULT_PARAMETERS
    /\ initState' = IF dom'.threw THEN "rejected" ELSE "resolved"
    /\ camera' = IF dom'.threw THEN camera
                 ELSE afterOnResize(camera, appRenderer.rect.width,
                                    appRenderer.rect.height, drawRenderer)
    /\ UNCHANGED <<changeLog, lastCall, nCalls, legacyVars, videoTexture,
                   videoReady, textureReady, released, disposal, video,
                   heatUp, animationValues, drawRenderer, loopVars>>

\* The video's loadeddata event: handleVideoReady (registered once by
\* createVideoElement before init() awaits)
VideoLoadedData ==
    /\ ~videoReady
    /\ assetLoad.video = "loading"
    /\ "video" \notin released
    /\ assetLoad' = [assetLoad EXCEPT !.video = "loaded"]
    /\ videoTexture' = "videoTexture"
    /\ thermalMaterial' =
         IF thermalMaterial.created
         THEN [thermalMaterial EXCEPT !.textureMap = "videoTexture"]
         ELSE thermalMaterial
    /\ animationValues' = [animationValues EXCEPT !.amount.target = 1000,
                                                  !.blendVideo.value = 1000]
    /\ videoReady' = TRUE
    /\ textureReady' = TRUE
    /\ \E allowed \in BOOLEAN :
         video' = [updatePlayButtonState(play(video, allowed, TRUE, frame))
                     EXCEPT !.readyRuns = @ + 1]
    /\ UNCHANGED <<camera, dom, paramVars, legacyVars, initState, maskTexture, released,
                   disposal, heatUp, heatMesh, interaction, drawRenderer,
                   loopVars>>

---------------------------------------------------------------------------
(* The animation loop *)

SceneRecord ==
    [ av |-> animationValues, heatUp |-> heatUp, draw |-> drawRenderer,
      inter |-> interaction, tm |-> thermalMaterial, mesh |-> heatMesh,
      video |-> video, params |-> parameters ]

\* One frame callback.  When update() throws, the callback is abandoned;
\* whether the loop schedules another frame after an uncaught error is up
\* to the rendering library, so both outcomes are allowed.
FrameCallback ==
    /\ loopAlive
    /\ \E done \in { loop(SceneRecord) } :
           /\ animationValues' = done.state.av
           /\ heatUp' = done.state.heatUp
           /\ drawRenderer' = done.state.draw
           /\ interaction' = done.state.inter
           /\ thermalMaterial' = done.state.tm
           /\ heatMesh' = done.state.mesh
           /\ video' = done.state.video
           /\ lastFrame' = done.frame
           /\ texHistory' =
                IF done.frame.pass.issued
                THEN SubSeq(<< done.frame.before >> \o texHistory, 1,
                            MathMin(2, Len(texHistory) + 1))
                ELSE texHistory
           /\ sinceEvent' =
                IF done.frame.pass.issued
                THEN [sinceEvent EXCEPT !.passes = MathMin(2, @ + 1)]
                ELSE sinceEvent
           /\ loopAlive' \in (IF done.frame.threw THEN BOOLEAN ELSE {TRUE})
    /\ UNCHANGED <<dom, paramVars, legacyVars, initState, maskTexture, videoTexture,
                   videoReady, textureReady, assetLoad, released, disposal,
                   appRenderer, camera>>

\* a frame callback, at most MaxFrames of them
Frame ==
    /\ frame < MaxFrames
    /\ FrameCallback
    /\ frame' = frame + 1

\* a frame callback of a run of any length: the callbacks are counted up
\* to `most` only
FrameUpTo(most) ==
    /\ FrameCallback
    /\ frame' = MathMin(frame + 1, most)

---------------------------------------------------------------------------
(* Pointer events.  One event is dispatched to every listener on its path  *)
(* before anything else runs.                                              *)

HandlerRecord ==
    [inter |-> interaction, av |-> animationValues, draw |-> drawRenderer,
     reports |-> << >>, changes |-> sinceEvent.changes]

\* at most this many pointer events in a behaviour
MaxEvents == 3

\* the state after the listeners of one event have run; an event whose
\* listeners reported a movement delta starts a new count of the
\* accumulator passes that follow it
AfterPointerEvent(H, kind, point) ==
    /\ sinceEvent.count < MaxEvents
    /\ "interactionManager" \notin released
    /\ interaction' = H.inter
    /\ animationValues' = H.av
    /\ drawRenderer' = H.draw
    /\ sinceEvent' =
         [ any     |-> sinceEvent.any \/ H.reports # << >>,
           passes  |-> IF H.reports # << >> THEN 0 ELSE sinceEvent.passes,
           delta   |-> IF H.reports # << >>
                       THEN [x |-> H.draw.uDirection.x,
                             y |-> H.draw.uDirection.y]
                       ELSE sinceEvent.delta,
           count   |-> sinceEvent.count + 1,
           frameAt |-> frame,
           kind    |-> kind,
           point   |-> point,
           holdBefore |-> interaction.interactionState.hold,
           reports |-> H.reports,
           changes |-> H.changes,
           fired   |-> Len(H.changes) - Len(sinceEvent.changes),
           prior   |-> [any |-> sinceEvent.any, point |-> sinceEvent.point] ]
    /\ UNCHANGED <<camera, paramVars, legacyVars, assetVars, heatUp, thermalMaterial,
                   heatMesh, appRenderer, loopAlive, frame, lastFrame,
                   texHistory>>

\* a pointermove inside the hit region: hit-region listener, container
\* listener (the event bubbles), window listener
PointerMoveInside ==
    /\ interaction.created
    /\ \E p \in InsidePoints :
         AfterPointerEvent(
           handleGlobalPointerMove(
             handlePointerMove(
               handlePointerMove(HandlerRecord, p.x, p.y, ViewportRect),
               p.x, p.y, ViewportRect),
             p.x, p.y, ViewportRect),
           "pointermove", p)

\* a pointermove outside the container: window listener only
PointerMoveWindow ==
    /\ interaction.created
    /\ \E p \in OutsidePoints :
         AfterPointerEvent(
           handleGlobalPointerMove(HandlerRecord, p.x, p.y, ViewportRect),
           "globalmove", p)

\* a pointerdown inside the hit region: hit-region and container listeners
PointerDown ==
    /\ interaction.created
    /\ \E p \in InsidePoints :
         AfterPointerEvent(
           handlePointerDown(
             handlePointerDown(HandlerRecord, p.x, p.y, ViewportRect),
             p.x, p.y, ViewportRect),
           "pointerdown", p)

\* the pointer enters the hit region (pointerenter does not bubble, and
\* the region covers the container: both listeners see their own event)
PointerEnter ==
    /\ interaction.created
    /\ \E p \in InsidePoints :
         AfterPointerEvent(
           handlePointerEnter(
             handlePointerEnter(HandlerRecord, p.x, p.y, ViewportRect),
             p.x, p.y, ViewportRect),
           "pointerenter", p)

\* a pointerup inside the hit region: hit-region and container listeners
PointerUp ==
    /\ interaction.created
    /\ AfterPointerEvent(handlePointerUp(handlePointerUp(HandlerRecord)),
                         "pointerup", sinceEvent.point)

\* the pointer leaves the hit region and the container
PointerLeave ==
    /\ interaction.created
    /\ AfterPointerEvent(handlePointerLeave(handlePointerLeave(HandlerRecord)),
                         "pointerleave", sinceEvent.point)

\* pointer events alone, from construction on
NextPointer ==
    \/ TextureLoaded
    \/ PointerMoveInside
    \/ PointerMoveWindow
    \/ PointerDown
    \/ PointerEnter
    \/ PointerUp
    \/ PointerLeave

SpecPointer == Init /\ [][NextPointer]_vars

\* asset arrival, frames and pointer events, from construction on
NextFrame ==
    \/ TextureLoaded
    \/ VideoLoadedData
    \/ Frame
    \/ PointerMoveInside
    \/ PointerMoveWindow
    \/ PointerUp

SpecFrame == Init /\ [][NextFrame]_vars

---------------------------------------------------------------------------
(* Parameter operations.  changeLog holds the onParameterChange calls of   *)
(* the last operation, lastCall what the operation was given and the       *)
(* parameters it started from.                                             *)

\* the effect of a ParameterController method on the scene: its result is
\* stored, its callbacks have updated the material
AfterController(result, op, name, value) ==
    /\ parameters' = result.parameters
    /\ changeLog' = result.calls
    /\ thermalMaterial' = AfterCalls(thermalMaterial, result.calls)
    /\ lastCall' = [op |-> op, name |-> name, value |-> value,
                    before |-> parameters]
    /\ nCalls' = nCalls + 1

\* a call that reaches no controller: parameterController?.x() on undefined
NoController(op, name, value) ==
    /\ lastCall' = [op |-> op, name |-> name, value |-> value,
                    before |-> parameters]
    /\ changeLog' = << >>
    /\ nCalls' = nCalls + 1
    /\ UNCHANGED <<camera, parameters, thermalMaterial>>

\* an input event on a HUD slider: the control's listener calls
\* this.setParameter(param, parseFloat(slider.value))
SliderInput ==
    /\ nCalls < MaxCalls
    /\ parameterController = "created"
    /\ "parameterController" \notin released
    /\ \E name \in ParameterNames : \E value \in SliderValues(name) :
         /\ AfterController(setParameter(parameters, name, value),
                            "setParameter", name, value)
         /\ dom' = [dom EXCEPT !.shown = updateValue(@, name, value)]
    /\ UNCHANGED <<camera, parameterController, legacyVars, assetVarsButDom, heatUp,
                   animationValues, heatMesh, interaction, drawRenderer,
                   loopVars>>

\* AppScene.setParameter
SceneSetParameter ==
    /\ nCalls < MaxCalls
    /\ \E name \in ParameterNames : \E value \in InputValues(name) :
         IF parameterController = "created"
         THEN AfterController(setParameter(parameters, name, value),
                              "setParameter", name, value)
         ELSE NoController("dropped", name, value)
    /\ UNCHANGED <<camera, parameterController, legacyVars, assetVars, heatUp,
                   animationValues, heatMesh, interaction, drawRenderer,
                   loopVars>>

\* ParameterController.setParameters with a partial object
ControllerSetParameters ==
    /\ nCalls < MaxCalls
    /\ parameterController = "created"
    /\ \E entries \in EntryLists :
         /\ AfterController(setParameters(parameters, entries),
                            "setParameters", "none", 0)
         /\ dom' = [dom EXCEPT !.shown = shownAfterSetParameters(@, entries)]
    /\ UNCHANGED <<camera, parameterController, legacyVars, assetVarsButDom, heatUp,
                   animationValues, heatMesh, interaction, drawRenderer,
                   loopVars>>

\* AppScene.resetParameters
SceneResetParameters ==
    /\ nCalls < MaxCalls
    /\ IF parameterController = "created"
       THEN /\ AfterController(resetToDefaults(parameters), "reset", "none", 0)
            /\ dom' = [dom EXCEPT !.shown = shownAfterReset(@)]
       ELSE /\ NoController("dropped", "none", 0)
            /\ dom' = dom
    /\ UNCHANGED <<camera, parameterController, legacyVars, assetVarsButDom, heatUp,
                   animationValues, heatMesh, interaction, drawRenderer,
                   loopVars>>

\* a click on the HUD reset button: resetToDefaults(), then the scene's
\* onReset, which pushes the parameters again and clears the heat
ResetButtonClick ==
    /\ nCalls < MaxCalls
    /\ parameterController = "created"
    /\ "parameterController" \notin released
    /\ LET result == resetToDefaults(parameters)
       IN  /\ parameters' = result.parameters
           /\ changeLog' = result.calls
           /\ thermalMaterial' = updateFromParameters(
                                   AfterCalls(thermalMaterial, result.calls),
                                   result.parameters)
    /\ lastCall' = [op |-> "reset", name |-> "none", value |-> 0,
                    before |-> parameters]
    /\ nCalls' = nCalls + 1
    /\ heatUp' = 0
    /\ dom' = [dom EXCEPT !.shown = shownAfterReset(@)]
    /\ UNCHANGED <<camera, parameterController, legacyVars, assetVarsButDom,
                   animationValues, heatMesh, interaction, drawRenderer,
                   loopVars>>

\* setParameter of the scene in scenes/AppScene.ts: this.parameters[name] = value
LegacySetParameter ==
    /\ nCalls < MaxCalls
    /\ \E name \in ParameterNames : \E value \in InputValues(name) :
         /\ legacyParameters' = [legacyParameters EXCEPT ![name] = value]
         /\ lastCall' = [op |-> "legacySetParameter", name |-> name,
                         value |-> value, before |-> legacyParameters]
    /\ nCalls' = nCalls + 1
    /\ UNCHANGED <<parameterController, parameters, changeLog, legacyScene,
                   assetVars, sceneVars, loopVars>>

\* resetParameters of the scene in scenes/AppScene.ts
LegacyResetParameters ==
    /\ nCalls < MaxCalls
    /\ legacyParameters' = DEFAULT_PARAMETERS
    /\ lastCall' = [op |-> "legacyReset", name |-> "none", value |-> 0,
                    before |-> legacyParameters]
    /\ nCalls' = nCalls + 1
    /\ UNCHANGED <<parameterController, parameters, changeLog, legacyScene,
                   assetVars, sceneVars, loopVars>>

\* the parameter interface of both scenes, from construction on
NextParams ==
    \/ TextureLoaded
    \/ SliderInput
    \/ SceneSetParameter
    \/ ControllerSetParameters
    \/ SceneResetParameters
    \/ ResetButtonClick
    \/ LegacySetParameter
    \/ LegacyResetParameters

SpecParams == Init /\ [][NextParams]_vars

---------------------------------------------------------------------------
(* The video element's events and the play button *)

\* at most this many clicks on the play button in a behaviour
MaxToggles == 3

\* currentTime values playback is observed at
VideoTimes == {LOOP_START_TIME, 1000, LOOP_END_TIME, 1300}

\* a click on the play button (its listener is bound by the constructor
\* and nothing removes it; dispose() leaves the video field set)
ToggleVideo ==
    /\ video.toggles < MaxToggles
    /\ initState # "notCalled"
    /\ \E allowed \in BOOLEAN :
         video' = handleToggleVideo(video, allowed,
                                    videoReady /\ textureReady, frame)
    /\ UNCHANGED <<dom, paramVars, legacyVars, initState, maskTexture, videoTexture,
                   videoReady, textureReady, assetLoad, released, disposal,
                   sceneVars, loopVars>>

\* the pending play() promise settles: playback starts, or it is rejected
\* (the media cannot be played) and the empty catch handler runs
PlaySettles ==
    /\ video.promise = "pending"
    /\ \/ video' = [video EXCEPT !.promise = "fulfilled"]
       \/ video' = rejectedCaught(video, videoReady /\ textureReady, frame)
    /\ UNCHANGED <<dom, paramVars, legacyVars, initState, maskTexture, videoTexture,
                   videoReady, textureReady, assetLoad, released, disposal,
                   sceneVars, loopVars>>

\* playback advances currentTime
VideoPlays ==
    /\ video.created /\ ~video.paused
    /\ "video" \notin released
    /\ \E t \in VideoTimes :
         /\ t > video.currentTime
         /\ video' = [video EXCEPT !.currentTime = t]
    /\ UNCHANGED <<dom, paramVars, legacyVars, initState, maskTexture, videoTexture,
                   videoReady, textureReady, assetLoad, released, disposal,
                   sceneVars, loopVars>>

\* asset arrival, frames, the play button and the video's own events
NextVideo ==
    \/ TextureLoaded
    \/ VideoLoadedData
    \/ Frame
    \/ ToggleVideo
    \/ PlaySettles
    \/ VideoPlays

SpecVideo == Init /\ [][NextVideo]_vars

---------------------------------------------------------------------------
(* The heat of the legacy scene (src/src/scenes/AppScene.ts).  Its update  *)
(* reads this.parameters, which setParameter writes with no range check.   *)

\* onVideoReady: sets videoReady and textureReady together, once
LegacyVideoReady ==
    /\ ~legacyScene.videoReady
    /\ legacyScene' = [legacyScene EXCEPT !.videoReady = TRUE]
    /\ UNCHANGED <<paramVars, legacyParameters, assetVars, sceneVars, loopVars>>

\* pointermove, pointerdown and pointerenter on the hit region, and the
\* window pointermove: each ends with this.hold = true
LegacyPointerMove ==
    /\ legacyScene' = [legacyScene EXCEPT !.hold = TRUE]
    /\ UNCHANGED <<paramVars, legacyParameters, assetVars, sceneVars, loopVars>>

\* pointerup and pointerleave: this.hold = false
LegacyPointerUp ==
    /\ legacyScene' = [legacyScene EXCEPT !.hold = FALSE]
    /\ UNCHANGED <<paramVars, legacyParameters, assetVars, sceneVars, loopVars>>

\* update(dt) of the legacy scene, its heat and hold fields: nothing until
\* textureReady (set with videoReady); the heat is raised and capped while
\* hold is set, handed to updateDraw, multiplied by parameters.heatDecay and
\* replaced by 0 below the threshold; hold is reset at the end
legacyUpdate(L, P, dt) ==
    IF ~L.videoReady THEN L
    ELSE
      LET raised == L.heatUp
                      + (P.heatSensitivity * 10000 * dt * TARGET_FPS) \div 60
          capped == IF ~L.hold THEN L.heatUp
                    ELSE IF raised > HEAT_MAX_VALUE THEN HEAT_MAX_VALUE
                    ELSE raised
          cooled == (capped * P.heatDecay) \div 100
      IN  [L EXCEPT !.uDraw  = capped,
                    !.heatUp = IF cooled < HEAT_CLEANUP_THRESHOLD THEN 0
                               ELSE cooled,
                    !.hold   = FALSE]

\* one frame callback of the legacy scene
LegacyFrame ==
    /\ legacyScene.frames < MaxLegacyFrames
    /\ legacyScene' =
         [legacyUpdate(legacyScene, legacyParameters, FrameDt)
            EXCEPT !.frames = legacyScene.frames + 1]
    /\ UNCHANGED <<paramVars, legacyParameters, assetVars, sceneVars, loopVars>>

\* the legacy scene: frames, pointer events and parameter changes
NextLegacy ==
    \/ LegacyVideoReady
    \/ LegacyPointerMove
    \/ LegacyPointerUp
    \/ LegacyFrame
    \/ LegacySetParameter
    \/ LegacyResetParameters

SpecLegacy == Init /\ [][NextLegacy]_vars

---------------------------------------------------------------------------
(* The life of the scene: construction, init(), the two asset loads with   *)
(* their failures, and dispose().                                          *)

\* at most this many dispose() calls in a behaviour
MaxDisposals == 3

\* the scene as its constructor leaves it: init() not yet called, no
\* component, no video element, no asset requested
InitConstructed ==
    /\ parameterController = "undefined"
    /\ parameters = DEFAULT_PARAMETERS
    /\ changeLog = << >>
    /\ lastCall = [op |-> "none", name |-> "none", value |-> 0,
                   before |-> DEFAULT_PARAMETERS]
    /\ nCalls = 0
    /\ legacyParameters = DEFAULT_PARAMETERS
    /\ legacyScene = NewLegacyScene
    /\ initState = "notCalled"
    /\ maskTexture = "undefined"
    /\ videoTexture = "undefined"
    /\ videoReady = FALSE
    /\ textureReady = FALSE
    /\ assetLoad = NoLoads
    /\ released = {}
    /\ disposal = NoDisposal
    /\ video = NoVideo
    /\ dom = ConstructedDocument
    /\ heatUp = 0
    /\ animationValues = InitialAnimationValues
    /\ thermalMaterial = NoThermalMaterial
    /\ heatMesh = [created |-> FALSE, scale |-> 1000]
    /\ interaction = NoInteractionManager
    /\ drawRenderer = NoDrawRenderer
    /\ camera = NewCamera
    /\ appRenderer = NewAppRenderer
    /\ loopAlive = TRUE
    /\ frame = 0
    /\ lastFrame = NoFrame
    /\ texHistory = << >>
    /\ sinceEvent = [any |-> FALSE, delta |-> Origin, passes |-> 0,
                     count |-> 0, frameAt |-> 0, kind |-> "none",
                     point |-> Origin,
                     holdBefore |-> FALSE, reports |-> << >>,
                     changes |-> << >>, fired |-> 0,
                     prior |-> [any |-> FALSE, point |-> Origin]]

\* init() up to its first await: the draw renderer is constructed, the
\* mask load is requested, the video element is created with its src
CallInit ==
    /\ initState = "notCalled"
    /\ dom.constructed = "done"
    /\ initState' = "awaiting"
    /\ \E isMobile \in BOOLEAN : drawRenderer' = NewDrawRenderer(isMobile)
    /\ assetLoad' = LoadsStarted
    /\ video' = NewVideoElement
    /\ UNCHANGED <<camera, dom, paramVars, legacyVars, maskTexture, videoTexture, videoReady,
                   textureReady, released, disposal, heatUp, animationValues,
                   thermalMaterial, heatMesh, interaction, loopVars>>

\* The mask load fails: loadTexture rejects, Promise.all and loadAssets
\* reject, init() rejects at its await and runs no further; main's catch
\* reports the error.
TextureLoadFailed ==
    /\ initState = "awaiting"
    /\ assetLoad.mask = "loading"
    /\ assetLoad' = [assetLoad EXCEPT !.mask = "failed"]
    /\ initState' = "rejected"
    /\ UNCHANGED <<dom, paramVars, legacyVars, maskTexture, videoTexture, videoReady,
                   textureReady, released, disposal, video, sceneVars,
                   loopVars>>

\* The video load fails: the element fires `error`; createVideoElement has
\* already returned and nothing listens for the event.
VideoLoadError ==
    /\ assetLoad.video = "loading"
    /\ "video" \notin released
    /\ assetLoad' = [assetLoad EXCEPT !.video = "failed"]
    /\ UNCHANGED <<dom, paramVars, legacyVars, initState, maskTexture, videoTexture,
                   videoReady, textureReady, released, disposal, video,
                   sceneVars, loopVars>>

\* the fields dispose() visits, in its order
DisposeOrder ==
    << "drawRenderer", "interactionManager", "parameterController",
       "thermalMaterial", "heatMesh", "maskTexture", "videoTexture", "video" >>

\* the fields of the scene that have been assigned
DefinedFields ==
    { field \in { DisposeOrder[i] : i \in 1..Len(DisposeOrder) } :
        \/ field \in {"drawRenderer", "video"} /\ initState # "notCalled"
        \/ field = "interactionManager" /\ interaction.created
        \/ field = "parameterController" /\ parameterController = "created"
        \/ field = "thermalMaterial" /\ thermalMaterial.created
        \/ field = "heatMesh" /\ heatMesh.created
        \/ field = "maskTexture" /\ maskTexture # "undefined"
        \/ field = "videoTexture" /\ videoTexture # "undefined" }

\* a release that dereferences the field without looking at it
releaseUnchecked(R, defined, field) ==
    IF field \in defined
    THEN [R EXCEPT !.released = @ \cup {field}]
    ELSE [R EXCEPT !.threw = TRUE]

\* one statement of dispose(): `this.field?.dispose()` or `if (this.field)
\* { ... }` releases an assigned field and skips an unassigned one
releaseIfDefined(R, defined, field) ==
    IF field \in defined
    THEN [R EXCEPT !.released = @ \cup {field}]
    ELSE R

RECURSIVE disposeFrom(_, _, _)
\* the statements of dispose() from the i-th on; a throw ends the call
disposeFrom(R, defined, i) ==
    IF i > Len(DisposeOrder) \/ R.threw THEN R
    ELSE disposeFrom(releaseIfDefined(R, defined, DisposeOrder[i]), defined, i + 1)

\* AppScene.dispose
dispose(alreadyReleased, defined) ==
    disposeFrom([released |-> alreadyReleased, threw |-> FALSE], defined, 1)

\* the end of dispose(): video.pause(), video.src = '', video.load()
disposeVideo(v, ready, atFrame) ==
    [pause(v, ready, atFrame) EXCEPT !.currentTime = 0]

\* what of the scene a dispose() call can be seen to have changed
SceneState(nowReleased, nowVideo) ==
    [ released |-> nowReleased,
      video    |-> [paused |-> nowVideo.paused,
                    currentTime |-> nowVideo.currentTime,
                    promise |-> nowVideo.promise],
      fields   |-> << initState, maskTexture, videoTexture, videoReady,
                      textureReady, parameterController, parameters, heatUp,
                      animationValues, thermalMaterial, heatMesh, interaction,
                      drawRenderer >> ]

\* a call of scene.dispose(): `settled` tells that nothing has changed
\* since the previous call returned
Dispose ==
    /\ disposal.calls < MaxDisposals
    /\ LET done == dispose(released, DefinedFields)
           stopped == IF "video" \in done.released
                      THEN disposeVideo(video, videoReady /\ textureReady, frame)
                      ELSE video
       IN  /\ released' = done.released
           /\ video' = stopped
           /\ disposal' =
                [ calls   |-> disposal.calls + 1,
                  threw   |-> done.threw,
                  first   |-> IF disposal.calls = 0 THEN initState
                              ELSE disposal.first,
                  settled |-> /\ disposal.calls > 0
                              /\ disposal.after = SceneState(released, video),
                  before  |-> SceneState(released, video),
                  after   |-> SceneState(done.released, stopped) ]
    /\ UNCHANGED <<dom, paramVars, legacyVars, initState, maskTexture, videoTexture,
                   videoReady, textureReady, assetLoad, sceneVars, loopVars>>

\* construction, init(), asset arrival or failure, and disposal
NextLife ==
    \/ CallInit
    \/ TextureLoaded
    \/ TextureLoadFailed
    \/ VideoLoadedData
    \/ VideoLoadError
    \/ Dispose

SpecLife == InitConstructed /\ [][NextLife]_vars

---------------------------------------------------------------------------
(* Construction and init() over documents that lack some of the elements.  *)

\* at most this many of the elements are absent from the document
MaxMissing == 2

\* the sets of absent elements
Missing == { missing \in SUBSET RequiredElements : Cardinality(missing) <= MaxMissing }

\* main has built the AppRenderer; the scene is about to be constructed
\* over a document that may lack elements
InitDocument ==
    /\ parameterController = "undefined"
    /\ parameters = DEFAULT_PARAMETERS
    /\ changeLog = << >>
    /\ lastCall = [op |-> "none", name |-> "none", value |-> 0,
                   before |-> DEFAULT_PARAMETERS]
    /\ nCalls = 0
    /\ legacyParameters = DEFAULT_PARAMETERS
    /\ legacyScene = NewLegacyScene
    /\ initState = "notCalled"
    /\ maskTexture = "undefined"
    /\ videoTexture = "undefined"
    /\ videoReady = FALSE
    /\ textureReady = FALSE
    /\ assetLoad = NoLoads
    /\ released = {}
    /\ disposal = NoDisposal
    /\ video = NoVideo
    /\ dom \in { NewDocument(RequiredElements \ missing) : missing \in Missing }
    /\ heatUp = 0
    /\ animationValues = InitialAnimationValues
    /\ thermalMaterial = NoThermalMaterial
    /\ heatMesh = [created |-> FALSE, scale |-> 1000]
    /\ interaction = NoInteractionManager
    /\ drawRenderer = NoDrawRenderer
    /\ camera = NewCamera
    /\ appRenderer = NewAppRenderer
    /\ loopAlive = TRUE
    /\ frame = 0
    /\ lastFrame = NoFrame
    /\ texHistory = << >>
    /\ sinceEvent = [any |-> FALSE, delta |-> Origin, passes |-> 0,
                     count |-> 0, frameAt |-> 0, kind |-> "none",
                     point |-> Origin,
                     holdBefore |-> FALSE, reports |-> << >>,
                     changes |-> << >>, fired |-> 0,
                     prior |-> [any |-> FALSE, point |-> Origin]]

\* main's `new AppScene(renderer)`; when it throws main's catch reports
\* the error and init() is never called
ConstructScene ==
    /\ dom.constructed = "no"
    /\ dom' = constructScene(dom)
    /\ UNCHANGED <<paramVars, legacyVars, initState, maskTexture, videoTexture,
                   videoReady, textureReady, assetLoad, released, disposal,
                   video, sceneVars, loopVars>>

NextDocument ==
    \/ ConstructScene
    \/ CallInit
    \/ TextureLoaded
    \/ VideoLoadedData

SpecDocument == InitDocument /\ [][NextDocument]_vars

\* C22: when any of the required elements (canvas wrapper, play button,
\* interaction area, the nine sliders and their value displays, HUD toggle,
\* HUD content, reset button) is absent from the document, construction or
\* init() throws: they never both complete.
C22_MissingElementThrows ==
    (dom.present # RequiredElements) =>
        ~(dom.constructed = "done" /\ initState = "resolved")

---------------------------------------------------------------------------
(* Resizing: the window's resize event, the camera and the accumulator.    *)

\* at most this many onResize() calls in a behaviour
MaxResizes == 3

\* The window's resize event: AppRenderer.handleResize measures the
\* container, sizes the renderer and calls scene.onResize.
WindowResize ==
    /\ camera.resized.calls < MaxResizes
    /\ \E width \in Sizes, height \in Sizes :
         /\ appRenderer' = [appRenderer EXCEPT
                               !.rect = [width |-> width, height |-> height]]
         /\ camera' = IF appRenderer.scene
                      THEN afterOnResize(camera, width, height, drawRenderer)
                      ELSE camera
    /\ UNCHANGED <<paramVars, legacyVars, assetVars, heatUp, animationValues,
                   thermalMaterial, heatMesh, interaction, drawRenderer,
                   loopAlive, frame, lastFrame, texHistory, sinceEvent>>

NextResize ==
    \/ TextureLoaded
    \/ VideoLoadedData
    \/ Frame
    \/ WindowResize

SpecResize == Init /\ [][NextResize]_vars

\* C23: DrawRenderer.resize(w, h) changes only the radius (uRadius.z) and
\* uResolution uniforms: the two render targets, their 256x256 size, which
\* of them is the current output, and the position, direction and draw
\* uniforms are as before the call.
C23_ResizeTouchesTwoUniforms ==
    lastFrame.resize.issued =>
      LET before == lastFrame.resize.before
          after  == lastFrame.resize.after
      IN  /\ after = [before EXCEPT !.uRadius.z = after.uRadius.z,
                                    !.uResolution = after.uResolution]
          /\ after.size = 256
          /\ getTexture(after) = getTexture(before)
          /\ after.uResolution = [x |-> lastFrame.resize.width,
                                  y |-> lastFrame.resize.height, z |-> 1]

\* a resize that changed both uniforms while the targets stood swapped and
\* the position, direction and draw uniforms were set
C23_Witness ==
    /\ lastFrame.resize.issued
    /\ lastFrame.resize.before.uResolution # lastFrame.resize.after.uResolution
    /\ lastFrame.resize.before.uRadius.z # lastFrame.resize.after.uRadius.z
    /\ lastFrame.resize.before.renderTargetB = "surface1"
    /\ lastFrame.resize.before.uDirection.w # 0
    /\ lastFrame.resize.after.uDirection = lastFrame.resize.before.uDirection

\* C24: when scene.onResize(w, h) with w, h > 0 returns, the camera bounds
\* are centred on 0 with right - left = max(1, w/h) and top - bottom =
\* max(1, h/w), and the accumulator's uResolution is (w, h) with the radius
\* uniform (isMobile ? 350 : 220) * h / 1000.
C24_OnResizeSetsCameraAndAccumulator ==
    camera.resized.calls > 0 =>
      LET width  == camera.resized.width
          height == camera.resized.height
      IN  /\ camera.left = -camera.right
          /\ camera.bottom = -camera.top
          /\ camera.right - camera.left
               = MathMax(1000, (1000 * width) \div height)
          /\ camera.top - camera.bottom
               = MathMax(1000, (1000 * height) \div width)
          /\ camera.resized.uResolution.x = width
          /\ camera.resized.uResolution.y = height
          /\ camera.resized.uRadiusZ =
               ((IF camera.resized.isMobile THEN MOBILE_RADIUS
                 ELSE DESKTOP_RADIUS) * height) \div RADIUS_RATIO

---------------------------------------------------------------------------
(* update(deltaTime) under a driver that measures the time between frames: *)
(* main hands the driver's delta to scene.update unchanged.                *)

\* the deltas the driver measures, in sixtieths of a second: none, one
\* frame at 60 fps, a fifth of a second, two seconds
DeltaTimes == {0, 1, 12, 120}

\* renderer.onUpdate(deltaTime): scene.update and nothing else; counted as
\* a frame
UpdateCall ==
    /\ loopAlive
    /\ frame < MaxFrames
    /\ appRenderer.onUpdate
    /\ \E deltaTime \in DeltaTimes :
       \E done \in { update(SceneRecord, deltaTime) } :
           /\ animationValues' = done.state.av
           /\ heatUp' = done.state.heatUp
           /\ drawRenderer' = done.state.draw
           /\ interaction' = done.state.inter
           /\ thermalMaterial' = done.state.tm
           /\ heatMesh' = done.state.mesh
           /\ video' = done.state.video
           /\ lastFrame' =
                [NoFrame EXCEPT
                   !.steps = << "update" >>,
                   !.threw = done.threw,
                   !.dt = deltaTime,
                   !.calls = nCalls,
                   !.video = [ before |-> video.currentTime,
                               after  |-> done.state.video.currentTime ],
                   !.heat = [ ready  |-> textureReady /\ videoReady
                                         /\ ~done.threw,
                              hold   |-> interaction.interactionState.hold,
                              before |-> heatUp,
                              after  |-> done.state.heatUp ]]
           /\ loopAlive' \in (IF done.threw THEN BOOLEAN ELSE {TRUE})
    /\ frame' = frame + 1
    /\ UNCHANGED <<dom, paramVars, legacyVars, initState, maskTexture,
                   videoTexture, videoReady, textureReady, assetLoad,
                   released, disposal, appRenderer, camera, texHistory,
                   sinceEvent>>

NextUpdate ==
    \/ TextureLoaded
    \/ VideoLoadedData
    \/ UpdateCall
    \/ PointerDown
    \/ PointerUp

SpecUpdate == Init /\ [][NextUpdate]_vars

\* C25: in every reachable state, after any sequence of update(dt) calls
\* and interaction-change events, the animated power value
\* (scrollAnimation.power.value) lies in [0.8, 1.0].
C25_PowerInRange ==
    /\ animationValues.scrollAnimation.power.value >= POWER_MIN
    /\ animationValues.scrollAnimation.power.value <= POWER_MAX

\* the power has reached the top of its range in an update of two seconds
\* while the pointer was held
C25_Witness ==
    /\ lastFrame.steps = << "update" >>
    /\ lastFrame.dt = 120
    /\ lastFrame.heat.hold
    /\ animationValues.scrollAnimation.power.target = POWER_MAX
    /\ animationValues.scrollAnimation.power.value = POWER_MAX

\* the value fields of the scene's AnimationValues
valueFields(av) ==
    << av.blendVideo.value, av.amount.value, av.move.value,
       av.scrollAnimation.opacity.value, av.scrollAnimation.scale.value,
       av.scrollAnimation.power.value >>

\* their target fields
targetFields(av) ==
    << av.blendVideo.target, av.amount.target, av.move.target,
       av.scrollAnimation.opacity.target, av.scrollAnimation.scale.target,
       av.scrollAnimation.power.target >>

\* C26: no event handler (pointer event, interaction change, video-ready,
\* parameter change, resize or scroll) writes the value field of any
\* AnimationValue, and update() writes no target field: a step that is not
\* an update leaves every value field alone, an update leaves every target
\* field alone.
C26_ValuesByUpdateTargetsByEvents ==
    [][ /\ (frame' = frame) =>
             valueFields(animationValues') = valueFields(animationValues)
        /\ (frame' # frame) =>
             targetFields(animationValues') = targetFields(animationValues)
      ]_vars

\* C27: in every frame that runs the heat update, the cursor position that
\* update() pushes to the accumulator via updatePosition is the position
\* already interpolated toward its target with this frame's dt: after the
\* frame the accumulator's uPosition is the interaction manager's position
\* as the frame left it, not as the previous frame did.
C27_PushedPositionIsThisFrames ==
    lastFrame.heat.ready =>
        drawRenderer.uPosition =
            updatePosition(drawRenderer, interaction.mouseState.position,
                           TRUE).uPosition

\* C28: across update(dt) calls with dt >= 0 after the video is ready,
\* amount.value never decreases, never exceeds 1, and once it is at or
\* above 0.99999 no later update changes it.
C28_FadeInMonotoneToOne ==
    [][ (frame' # frame /\ videoReady) =>
          /\ animationValues'.amount.value >= animationValues.amount.value
          /\ animationValues'.amount.value <= 1000
          /\ (animationValues.amount.value * 100 >= 99999) =>
                animationValues'.amount.value = animationValues.amount.value
      ]_vars

---------------------------------------------------------------------------
(* Parameter writes between frames.                                        *)

NextUniforms ==
    \/ TextureLoaded
    \/ VideoLoadedData
    \/ Frame
    \/ SliderInput
    \/ SceneSetParameter
    \/ ControllerSetParameters
    \/ SceneResetParameters
    \/ ResetButtonClick

SpecUniforms == Init /\ [][NextUniforms]_vars

between(a, x, b) == (a <= x /\ x <= b) \/ (b <= x /\ x <= a)

\* one smoothed value over an update of length dt: the factor is
\* base * dt * 60 cut to [0, 1], the value ends between where it was and
\* the target, and on the target when the uncut factor is 1 or more
smoothedStep(base, dt, before, target, after) ==
    /\ lerpSpeed(base, dt) = clamp((base * dt * 60) \div 60, 0, 1000)
    /\ between(before, after, target)
    /\ ((base * dt * 60) \div 60 >= 1000) => after = target

\* C31: lerpSpeed(base, dt) equals clamp(base*dt*60, 0, 1), so each value
\* advanced with it (mouse position, move, power, scroll opacity, scroll
\* scale, blendVideo) ends every update(dt) inside the closed interval
\* between its value before the update and the target it was stepped
\* toward, and equals that target whenever base*dt*60 >= 1.
C31_SmoothedValuesStayBetween ==
    [][ (frame' # frame /\ textureReady) =>
          LET av == animationValues
              to == animationValues'
              dt == lastFrame'.dt
          IN  /\ smoothedStep(MOUSE_INTERPOLATION_SPEED, dt,
                              av.mouse.position.x, av.mouse.target.x,
                              to.mouse.position.x)
              /\ smoothedStep(MOUSE_INTERPOLATION_SPEED, dt,
                              av.mouse.position.y, av.mouse.target.y,
                              to.mouse.position.y)
              /\ smoothedStep(MOVEMENT_INTERPOLATION_SPEED, dt,
                              av.move.value, av.move.target, to.move.value)
              /\ smoothedStep(POWER_INTERPOLATION_SPEED, dt,
                              av.scrollAnimation.power.value,
                              av.scrollAnimation.power.target,
                              to.scrollAnimation.power.value)
              /\ smoothedStep(SCROLL_INTERPOLATION_SPEED, dt,
                              av.scrollAnimation.opacity.value,
                              (av.scrollAnimation.opacity.target
                                 * to.move.value) \div 1000,
                              to.scrollAnimation.opacity.value)
              /\ smoothedStep(SCROLL_INTERPOLATION_SPEED, dt,
                              av.scrollAnimation.scale.value,
                              av.scrollAnimation.scale.target,
                              to.scrollAnimation.scale.value)
              /\ videoReady =>
                   smoothedStep(VIDEO_BLEND_SPEED, dt, av.blendVideo.value,
                                av.blendVideo.target, to.blendVideo.value)
      ]_vars

\* an update of a fifth of a second while the pointer is held: the mouse
\* position (base 0.8) and the blend (base 0.1) are on their targets, the
\* move value (base 0.01) is strictly between its old value and its target
C31_Witness ==
    /\ lastFrame.steps = << "update" >>
    /\ lastFrame.dt = 12
    /\ lastFrame.heat.ready
    /\ animationValues.mouse.target # Origin
    /\ animationValues.mouse.position = animationValues.mouse.target
    /\ animationValues.move.target = HOLD_MOVE_TARGET
    /\ animationValues.move.value < 1000
    /\ animationValues.move.value > HOLD_MOVE_TARGET
    /\ animationValues.blendVideo.value = animationValues.blendVideo.target

\* C32: when a single pointer-move inside the hit region is dispatched in
\* turn to the hit-region handler, the container handler and the window
\* handler, the direction held by the accumulator after all handlers have
\* run equals that event's movement delta relative to the previous pointer
\* event ((0.5, 0.5) before any): no later handler of the same event
\* overwrites it with a zero delta.
C32_MoveDeltaSurvivesHandlers ==
    LET r == ViewportRect
        Normalized(p) == [x |-> ((p.x - r.left) * 1000) \div r.width,
                          y |-> ((p.y - r.top) * 1000) \div r.height]
        now == Normalized(sinceEvent.point)
        previous == IF sinceEvent.prior.any
                    THEN Normalized(sinceEvent.prior.point)
                    ELSE [x |-> 500, y |-> 500]
    IN  sinceEvent.kind = "pointermove" =>
          /\ sinceEvent.delta.x = now.x - previous.x
          /\ sinceEvent.delta.y = now.y - previous.y

\* C33: in every interleaving of asset-load callbacks, init() steps and
\* frame callbacks, whenever update() gets past its readiness guard the
\* interactionManager, parameterController and thermalMaterial have already
\* been constructed, so update() never fails on a missing component.
C33_ComponentsBeforeReady ==
    /\ ~lastFrame.threw
    /\ lastFrame.heat.ready =>
         /\ interaction.created
         /\ parameterController = "created"
         /\ thermalMaterial.created

\* C34: whichever happens first, the video's first-frame event or init()
\* creating the thermal material, once both have happened the compositor's
\* textureMap uniform is the video texture created by the ready handler, and
\* the ready handler's effects (video texture creation, amount.target = 1,
\* play()) occur at most once.
C34_VideoTextureEitherOrder ==
    /\ (videoReady /\ thermalMaterial.created) =>
          /\ videoTexture = "videoTexture"
          /\ thermalMaterial.textureMap = videoTexture
    /\ video.readyRuns <= 1
    /\ video.playCalls <= 1
    /\ video.readyRuns = (IF videoReady THEN 1 ELSE 0)
    /\ (videoTexture = "videoTexture") = videoReady

\* the video was ready first (a frame ran into the missing components), the
\* material was created afterwards and carries the video texture
C34_Witness ==
    /\ lastFrame.threw
    /\ videoReady
    /\ thermalMaterial.created
    /\ thermalMaterial.textureMap = "videoTexture"
    /\ video.readyRuns = 1

\* the material was created first, with no video texture, and the ready
\* handler has handed it the texture
C34_WitnessMaterialFirst ==
    /\ ~lastFrame.threw
    /\ lastFrame.steps # << >>
    /\ ~lastFrame.heat.ready
    /\ lastFrame.composite.material
    /\ videoReady
    /\ thermalMaterial.textureMap = "videoTexture"

\* C35: if dispose() is called while init() is awaiting its assets, then
\* after init() has resumed no component (thermal material, interaction
\* manager, parameter controller) exists, and so no listener of theirs is
\* registered.
C35_NoComponentsAfterDisposedInit ==
    (disposal.first = "awaiting" /\ initState \in {"resolved", "rejected"}) =>
        /\ ~thermalMaterial.created
        /\ ~interaction.created
        /\ parameterController # "created"

---------------------------------------------------------------------------
(* The scene after dispose(): the animation loop of the AppRenderer and the *)
(* listeners go on as the code leaves them.                                 *)

\* asset arrival, frames, pointer-down events and disposal
NextInert ==
    \/ TextureLoaded
    \/ VideoLoadedData
    \/ Frame
    \/ PointerDown
    \/ Dispose

SpecInert == Init /\ [][NextInert]_vars

\* C36: after dispose() has returned on an initialised scene the scene is
\* inert: no event changes scene state, and a frame callback changes no
\* scene state and issues no accumulator pass.
C36_InertAfterDispose ==
    [][ ( /\ disposal.calls > 0
          /\ disposal.first = "resolved"
          /\ disposal' = disposal ) =>
            /\ sceneVars' = sceneVars
            /\ video' = video
            /\ parameters' = parameters
            /\ (frame' # frame => ~lastFrame'.pass.issued) ]_vars

\* C38: after ParameterController.setParameters(values), for every supplied
\* parameter the value its slider control shows (the slider's value and the
\* text of its value display) is the stored, clamped value that getParameter
\* returns, out-of-range input included.
C38_ControlsShowStoredValues ==
    lastCall.op = "setParameters" =>
        \A i \in 1..Len(changeLog) :
            LET name == changeLog[i].name
            IN  /\ dom.shown[name].slider = parameters[name]
                /\ dom.shown[name].display = toFixed1(parameters[name])

\* C39: a scene.setParameter(P, v) made before init() has constructed the
\* parameter controller is not lost: once init() has completed,
\* getParameters()[P] is clamp(v, min, max) (no later write to P here: the
\* early call is the last parameter operation).
C39_EarlyWriteNotLost ==
    ( /\ lastCall.op = "dropped"
      /\ lastCall.name \in ParameterNames
      /\ initState = "resolved"
      /\ parameterController = "created" ) =>
        parameters[lastCall.name] = ClampToRange(lastCall.name, lastCall.value)

---------------------------------------------------------------------------
(* Long runs of the heat update.  The scene is ready before the first      *)
(* frame callback (both assets loaded, init() resolved), the pointer has   *)
(* moved over the window so that hold is set, and the two heat sliders     *)
(* have been set; frames then run for as long as it takes, and the pointer *)
(* may be released at any frame.                                           *)

\* slider settings of heatSensitivity and heatDecay: the ends of both
\* ranges and the defaults
HeatSettings ==
    { [DEFAULT_PARAMETERS EXCEPT !.heatSensitivity = s, !.heatDecay = d] :
        s \in { PARAMETER_RANGES.heatSensitivity.min,
                DEFAULT_PARAMETERS.heatSensitivity,
                PARAMETER_RANGES.heatSensitivity.max },
        d \in { PARAMETER_RANGES.heatDecay.min,
                DEFAULT_PARAMETERS.heatDecay,
                PARAMETER_RANGES.heatDecay.max } }

\* the ready scene with hold set and parameters P, before the first frame
HoldingFromStart(P) ==
    LET point == [x |-> 250, y |-> 50]
        draw  == NewDrawRenderer(FALSE)
        H == handleGlobalPointerMove(
               [ inter |-> NewInteractionManager,
                 av |-> [InitialAnimationValues EXCEPT !.amount.target = 1000,
                                                       !.blendVideo.value = 1000],
                 draw |-> draw, reports |-> << >>, changes |-> << >> ],
               point.x, point.y, ViewportRect)
    IN  /\ parameterController = "created"
        /\ parameters = P
        /\ changeLog = << >>
        /\ lastCall = [op |-> "none", name |-> "none", value |-> 0,
                       before |-> DEFAULT_PARAMETERS]
        /\ nCalls = 0
        /\ legacyParameters = DEFAULT_PARAMETERS
        /\ legacyScene = NewLegacyScene
        /\ initState = "resolved"
        /\ maskTexture = "maskTexture"
        /\ videoTexture = "videoTexture"
        /\ videoReady = TRUE
        /\ textureReady = TRUE
        /\ assetLoad = [LoadsStarted EXCEPT !.mask = "loaded",
                                             !.video = "loaded"]
        /\ released = {}
        /\ disposal = NoDisposal
        /\ dom = setupComponents(ConstructedDocument)
        /\ video = [NewVideoElement EXCEPT !.paused = FALSE,
                                           !.promise = "fulfilled",
                                           !.playCalls = 1,
                                           !.readyRuns = 1,
                                           !.button = "Pause"]
        /\ heatUp = 0
        /\ animationValues = H.av
        /\ thermalMaterial =
             LET tm == [createUniforms(getTexture(draw), "undefined",
                                       "maskTexture")
                          EXCEPT !.textureMap = "videoTexture"]
             IN  IF P = DEFAULT_PARAMETERS THEN tm
                 ELSE updateFromParameters(tm, P)
        /\ heatMesh = [created |-> TRUE, scale |-> 1000]
        /\ interaction = H.inter
        /\ drawRenderer = H.draw
        /\ camera = afterOnResize(NewCamera, ViewportRect.width,
                                  ViewportRect.height, draw)
        /\ appRenderer = NewAppRenderer
        /\ loopAlive = TRUE
        /\ frame = 0
        /\ lastFrame = NoFrame
        /\ texHistory = << >>
        /\ sinceEvent = [any |-> TRUE, passes |-> 0,
                         delta |-> [x |-> H.draw.uDirection.x,
                                    y |-> H.draw.uDirection.y],
                         count |-> 1, frameAt |-> 0, kind |-> "globalmove",
                         point |-> point, holdBefore |-> FALSE,
                         reports |-> H.reports, changes |-> H.changes,
                         fired |-> 1,
                         prior |-> [any |-> FALSE, point |-> Origin]]

InitHeat == \E P \in HeatSettings : HoldingFromStart(P)

\* a frame callback of a long run (counted up to MaxFrames only)
HeatFrame == FrameUpTo(MaxFrames)

\* the held pointer is released
Release ==
    /\ interaction.interactionState.hold
    /\ PointerUp

NextHeat ==
    \/ HeatFrame
    \/ Release

SpecHeat == InitHeat /\ [][NextHeat]_vars

---------------------------------------------------------------------------
(* Two runs that differ only in the values written to `reactivity`.  The   *)
(* runs receive the same events, so they stay in step; they agree after    *)
(* every step when, from every reachable state, each step's outcome is the *)
(* same whatever the stored reactivity is and whatever value is written to *)
(* it.                                                                     *)

\* an input event on the reactivity slider or on the heat-sensitivity
\* slider (the listener of SliderInput)
ReactivitySliderInput ==
    /\ nCalls < MaxCalls
    /\ parameterController = "created"
    /\ "parameterController" \notin released
    /\ \E name \in {"reactivity", "heatSensitivity"} :
         \E value \in SliderValues(name) :
           /\ AfterController(setParameter(parameters, name, value),
                              "setParameter", name, value)
           /\ dom' = [dom EXCEPT !.shown = updateValue(@, name, value)]
    /\ UNCHANGED <<camera, parameterController, legacyVars, assetVarsButDom, heatUp,
                   animationValues, heatMesh, interaction, drawRenderer,
                   loopVars>>

\* frames, the release of the held pointer, and slider writes
NextReactivity ==
    \/ Frame
    \/ Release
    \/ ReactivitySliderInput

\* from a ready scene with the pointer held
SpecReactivity == InitHeat /\ [][NextReactivity]_vars

\* the values the other run may hold in, or write to, reactivity
ReactivityValues == InputValues("reactivity")

\* stored parameters with reactivity hidden
withoutReactivity(p) == [p EXCEPT !.reactivity = 0]

\* the outcome of a frame callback in a run whose stored reactivity is r,
\* with the reactivity hidden
frameOutcome(r) ==
    LET done == loop([SceneRecord EXCEPT !.params.reactivity = r])
    IN  [ state |-> [done.state EXCEPT !.params = withoutReactivity(@)],
          frame |-> done.frame ]

\* the outcome of a parameter write in a run whose stored reactivity is r:
\* the stored parameters with reactivity hidden, and the material after the
\* scene's callback
writeOutcome(r, name, value) ==
    LET result == setParameter([parameters EXCEPT !.reactivity = r], name, value)
    IN  [ parameters |-> withoutReactivity(result.parameters),
          tm         |-> AfterCalls(thermalMaterial, result.calls) ]

MaxHeatFrames == 260

\* the heat settings of these runs: any sensitivity, the default decay and
\* the fastest one (the slowest decay, 0.99, is left to SpecHeat)
InitHeatLive ==
    \E P \in HeatSettings :
        /\ P.heatDecay <= DEFAULT_PARAMETERS.heatDecay
        /\ HoldingFromStart(P)

ScenarioFrame == FrameUpTo(MaxHeatFrames)

NextHeatLive ==
    \/ ScenarioFrame
    \/ Release

SpecHeatLive ==
    InitHeatLive /\ [][NextHeatLive]_vars /\ WF_vars(ScenarioFrame)

---------------------------------------------------------------------------
(* Properties of the parameter interface *)

\* C1: after ParameterController.setParameter(P, v), for any of the nine
\* parameters and v below, at, inside or above the range, getParameter(P)
\* is clamp(v, min, max) and the one onParameterChange call of the
\* operation was handed that same clamped value for P.
C1_SetParameterClamps ==
    LET range   == PARAMETER_RANGES[lastCall.name]
        clamped == IF lastCall.value < range.min THEN range.min
                   ELSE IF lastCall.value > range.max THEN range.max
                   ELSE lastCall.value
    IN  lastCall.op = "setParameter" =>
            /\ parameters[lastCall.name] = clamped
            /\ Len(changeLog) = 1
            /\ changeLog[1].name = lastCall.name
            /\ changeLog[1].value = clamped

\* a setParameter whose argument was above the range has stored the maximum
C1_Witness ==
    /\ lastCall.op = "setParameter"
    /\ lastCall.value > PARAMETER_RANGES[lastCall.name].max
    /\ parameters[lastCall.name] = PARAMETER_RANGES[lastCall.name].max
    /\ Len(changeLog) = 1

\* C2: after any sequence of setParameter, setParameters and reset calls
\* through the public interface of a scene, in each scene implementation,
\* every one of the nine stored parameters lies within its declared range.
C2_StoredParametersInRange ==
    \A name \in ParameterNames :
        /\ PARAMETER_RANGES[name].min <= parameters[name]
        /\ parameters[name] <= PARAMETER_RANGES[name].max
        /\ PARAMETER_RANGES[name].min <= legacyParameters[name]
        /\ legacyParameters[name] <= PARAMETER_RANGES[name].max

\* C3: after resetToDefaults(), whatever was written before, all nine
\* parameters equal DEFAULT_PARAMETERS, and every onParameterChange call
\* fired during the reset observed all nine parameters at their defaults.
C3_ResetAllAtOnce ==
    lastCall.op = "reset" =>
        /\ parameters = DEFAULT_PARAMETERS
        /\ Len(changeLog) = Len(controls)
        /\ \A i \in 1..Len(changeLog) :
             /\ changeLog[i].seen = DEFAULT_PARAMETERS
             /\ changeLog[i].value = DEFAULT_PARAMETERS[changeLog[i].name]

\* a reset that started from parameters away from their defaults and fired
\* a callback for every control
C3_Witness ==
    /\ lastCall.op = "reset"
    /\ \E name \in ParameterNames :
         /\ name # controls[Len(controls)]
         /\ lastCall.before[name] # DEFAULT_PARAMETERS[name]
    /\ Len(changeLog) = Len(controls)
    /\ parameters = DEFAULT_PARAMETERS

---------------------------------------------------------------------------
(* Properties of the frame loop *)

\* C4: after one render() getTexture() returns a different surface than
\* before the call, and after two render() calls it returns the surface it
\* returned before the first of them.  texHistory holds what getTexture()
\* returned before the last render and before the one preceding it.
C4_PingPongPeriodTwo ==
    /\ Len(texHistory) >= 1 => getTexture(drawRenderer) # texHistory[1]
    /\ Len(texHistory) >= 2 => getTexture(drawRenderer) = texHistory[2]

\* two render() calls have been made
C4_Witness ==
    /\ Len(texHistory) = 2
    /\ texHistory[1] # texHistory[2]
    /\ getTexture(drawRenderer) = texHistory[2]

\* C5: the two render targets are distinct, getTexture() designates exactly
\* one of them, the surface a render() samples as uTexture differs from the
\* surface it writes, and the surface written is the one getTexture()
\* returns right after the call.
C5_TargetsDistinct ==
    /\ drawRenderer.renderTargetA # drawRenderer.renderTargetB
    /\ {drawRenderer.renderTargetA, drawRenderer.renderTargetB} = Surfaces
    /\ getTexture(drawRenderer) \in Surfaces
    /\ lastFrame.pass.issued =>
         /\ lastFrame.pass.read # lastFrame.pass.write
         /\ lastFrame.pass.write = getTexture(drawRenderer)

\* a render() has sampled one surface and written the other
C5_Witness ==
    /\ lastFrame.pass.issued
    /\ lastFrame.pass.read \in Surfaces
    /\ lastFrame.pass.write \in Surfaces \ {lastFrame.pass.read}
    /\ frame >= 2

\* C6: when the compositor pass of a frame is issued with the thermal
\* material in the scene, the material's drawMap uniform is the surface the
\* accumulator pass of that frame has just written, which is what
\* getTexture() returns at that moment.
C6_CompositorReadsFreshSurface ==
    (lastFrame.composite.issued /\ lastFrame.composite.material) =>
        /\ lastFrame.composite.drawMap = lastFrame.composite.current
        /\ lastFrame.composite.drawMap = lastFrame.pass.write

\* C7: every frame callback performs scene.update(dt), the accumulator
\* pass and the compositor pass, once each and in this order.
C7_FrameStepsInOrder ==
    frame > 0 => lastFrame.steps = << "update", "accumulator", "compositor" >>

\* C8: the accumulator pass that follows a pointer event runs with the
\* movement delta the event wrote into the direction uniform, and every
\* later pass before another pointer event runs with (0,0).
C8_DeltaConsumedByOnePass ==
    (sinceEvent.any /\ sinceEvent.passes >= 1 /\ lastFrame.pass.issued) =>
        IF sinceEvent.passes = 1
        THEN /\ lastFrame.pass.direction.x = sinceEvent.delta.x
             /\ lastFrame.pass.direction.y = sinceEvent.delta.y
        ELSE /\ lastFrame.pass.direction.x = 0
             /\ lastFrame.pass.direction.y = 0

\* C9: a frame callback that runs before both the mask texture has loaded
\* and the video's first frame has arrived changes no animation value, heat
\* or accumulator state and issues no render pass.
C9_NoFrameWorkBeforeReady ==
    [][ (frame' = frame + 1 /\ ~(maskTexture = "maskTexture" /\ videoReady)) =>
            /\ animationValues' = animationValues
            /\ heatUp' = heatUp
            /\ drawRenderer' = drawRenderer
            /\ ~lastFrame'.pass.issued
            /\ ~lastFrame'.composite.issued ]_vars

\* C10: whenever init() has resolved, the video's first frame has arrived.
C10_InitWaitsForVideo ==
    initState = "resolved" => videoReady

---------------------------------------------------------------------------
(* Properties of the heat update *)

\* C11 (as stated): with hold set on every frame, the stored heat is
\* strictly greater after each frame than before it until it equals the
\* ceiling 1.3, and from then on it stays at 1.3.
C11_HeldHeatReachesCeiling ==
    (lastFrame.heat.ready /\ lastFrame.heat.hold) =>
        \/ lastFrame.heat.after > lastFrame.heat.before
        \/ /\ lastFrame.heat.before = HEAT_MAX_VALUE
           /\ lastFrame.heat.after = HEAT_MAX_VALUE

\* C11 (amended): on a frame with hold set, the level pushed to the
\* accumulator is min(stored heat + heatSensitivity, 1.3) and the heat
\* stored after the frame is heatDecay times that level; the stored heat
\* never decreases from one such frame to the next, and it stays below the
\* ceiling 1.3, levelling off at the latest at 1.3 * heatDecay.
C11_HeldHeatLevelsOff ==
    LET raised  == lastFrame.heat.before + parameters.heatSensitivity * 10000
        pushed  == IF raised > HEAT_MAX_VALUE THEN HEAT_MAX_VALUE ELSE raised
        product == (pushed * parameters.heatDecay) \div 100
    IN  (lastFrame.heat.ready /\ lastFrame.heat.hold) =>
            /\ lastFrame.pass.heat = pushed
            /\ lastFrame.heat.after =
                 (IF product < HEAT_CLEANUP_THRESHOLD THEN 0 ELSE product)
            /\ lastFrame.heat.after >= lastFrame.heat.before
            /\ lastFrame.heat.after < HEAT_MAX_VALUE

\* a held frame that pushed the ceiling and left the stored heat where it
\* was, at 1.3 * heatDecay
C11_Witness ==
    /\ lastFrame.heat.ready
    /\ lastFrame.heat.hold
    /\ lastFrame.pass.heat = HEAT_MAX_VALUE
    /\ lastFrame.heat.after = lastFrame.heat.before
    /\ lastFrame.heat.after = (HEAT_MAX_VALUE * parameters.heatDecay) \div 100

\* C12: on a frame with hold not set, the heat stored after the frame is
\* heatDecay times the heat stored before it, or exactly 0 when that
\* product is below 0.001; the stored heat is never strictly between 0
\* and 0.001.
C12_ReleasedHeatDecays ==
    LET product == (lastFrame.heat.before * parameters.heatDecay) \div 100
    IN  /\ (lastFrame.heat.ready /\ ~lastFrame.heat.hold) =>
               lastFrame.heat.after =
                 (IF product < HEAT_CLEANUP_THRESHOLD THEN 0 ELSE product)
        /\ ~(0 < heatUp /\ heatUp < HEAT_CLEANUP_THRESHOLD)
        /\ heatUp = lastFrame.heat.after

\* a released frame whose product fell below the threshold and was stored
\* as 0
C12_Witness ==
    /\ lastFrame.heat.ready
    /\ ~lastFrame.heat.hold
    /\ lastFrame.heat.before >= HEAT_CLEANUP_THRESHOLD
    /\ (lastFrame.heat.before * parameters.heatDecay) \div 100 > 0
    /\ lastFrame.heat.after = 0
    /\ heatUp = 0

\* C13: while hold stays unset the stored heat becomes exactly 0 after
\* finitely many frames and then stays 0; with heatDecay 0.95 and
\* heatSensitivity 0.5, 60 held frames followed by 200 released frames end
\* with stored heat exactly 0.
C13_HeatDiesOut ==
    /\ [](~interaction.interactionState.hold =>
            <>(heatUp = 0 \/ interaction.interactionState.hold))
    /\ [][ (~interaction.interactionState.hold /\ heatUp = 0) =>
              (heatUp' = 0 \/ interaction'.interactionState.hold) ]_vars
    /\ []( ( /\ parameters.heatDecay = 95
              /\ parameters.heatSensitivity = 50
              /\ sinceEvent.kind = "pointerup"
              /\ sinceEvent.frameAt = 60
              /\ frame = MaxHeatFrames ) => heatUp = 0 )

\* the reference run has ended: released after 60 held frames, 200 more
\* frames run, nothing left
C13_Witness ==
    /\ parameters.heatDecay = 95
    /\ parameters.heatSensitivity = 50
    /\ sinceEvent.kind = "pointerup"
    /\ sinceEvent.frameAt = 60
    /\ frame = MaxHeatFrames
    /\ ~lastFrame.heat.hold
    /\ heatUp = 0

\* C14: after any frames, pointer events and parameter changes the stored
\* heat and the heat handed to updateDraw lie in [0, 1.3], in the refactored
\* scene and in the legacy scene.
C14_HeatInRange ==
    /\ 0 <= heatUp /\ heatUp <= HEAT_MAX_VALUE
    /\ 0 <= drawRenderer.uDraw /\ drawRenderer.uDraw <= HEAT_MAX_VALUE
    /\ 0 <= legacyScene.heatUp /\ legacyScene.heatUp <= HEAT_MAX_VALUE
    /\ 0 <= legacyScene.uDraw /\ legacyScene.uDraw <= HEAT_MAX_VALUE

---------------------------------------------------------------------------
(* Properties of the pointer input *)

\* C15: onInteractionChange is invoked only when hold changes: the
\* arguments of its successive invocations alternate, the first is true,
\* and an event that leaves hold as it was invokes no callback, one that
\* changes it invokes exactly one.
C15_ChangeCallbackOnEdges ==
    /\ \A i \in 1..Len(sinceEvent.changes) :
          sinceEvent.changes[i] = (i % 2 = 1)
    /\ sinceEvent.count > 0 =>
          sinceEvent.fired =
            IF interaction.interactionState.hold = sinceEvent.holdBefore
            THEN 0 ELSE 1

\* pressed, released, then a pointerleave that finds hold already false
C15_Witness ==
    /\ sinceEvent.changes = << TRUE, FALSE >>
    /\ sinceEvent.kind = "pointerleave"
    /\ ~sinceEvent.holdBefore
    /\ sinceEvent.fired = 0

\* C16: after pointerdown, pointermove or pointerenter on the hit region
\* hold is true; after pointerup or pointerleave it is false.
C16_HoldFollowsEvents ==
    /\ sinceEvent.kind \in {"pointerdown", "pointermove", "pointerenter"} =>
          interaction.interactionState.hold
    /\ sinceEvent.kind \in {"pointerup", "pointerleave"} =>
          ~interaction.interactionState.hold

\* C17: every position handed to onPositionUpdate is
\* (2(x - left)/width - 1, 1 - 2(y - top)/height) of the event's point:
\* (-1, 1) at the top-left corner of the bounds, (1, -1) at the bottom-right
\* corner, (0, 0) at the centre, and within [-1, 1] for a point inside.
C17_ScreenToNDC ==
    LET r == ViewportRect
        p == sinceEvent.point
        inside == /\ r.left <= p.x /\ p.x <= r.left + r.width
                  /\ r.top <= p.y /\ p.y <= r.top + r.height
    IN  \A i \in 1..Len(sinceEvent.reports) :
          LET ndc == sinceEvent.reports[i].position
          IN  /\ ndc.x = (2000 * (p.x - r.left)) \div r.width - 1000
              /\ ndc.y = 1000 - (2000 * (p.y - r.top)) \div r.height
              /\ (p.x = r.left /\ p.y = r.top) => ndc = [x |-> -1000, y |-> 1000]
              /\ (p.x = r.left + r.width /\ p.y = r.top + r.height) =>
                    ndc = [x |-> 1000, y |-> -1000]
              /\ (2 * p.x = 2 * r.left + r.width
                    /\ 2 * p.y = 2 * r.top + r.height) =>
                    ndc = [x |-> 0, y |-> 0]
              /\ inside => /\ -1000 <= ndc.x /\ ndc.x <= 1000
                           /\ -1000 <= ndc.y /\ ndc.y <= 1000

\* the top-left corner is reported as (-1, 1) right after an event at the
\* bottom-right corner
C17_Witness ==
    /\ sinceEvent.point = [x |-> ViewportRect.left, y |-> ViewportRect.top]
    /\ sinceEvent.reports # << >>
    /\ sinceEvent.reports[1].position = [x |-> -1000, y |-> 1000]
    /\ sinceEvent.prior.any
    /\ sinceEvent.prior.point = [x |-> ViewportRect.left + ViewportRect.width,
                                 y |-> ViewportRect.top + ViewportRect.height]

\* C18: every position callback, local or global, reports as delta the
\* event's normalized position minus the previously reported normalized
\* position ((0.5, 0.5) before any report), and afterwards lastNX / lastNY
\* hold the event's normalized position.
C18_DeltaFromLastReport ==
    LET r == ViewportRect
        Normalized(p) == [x |-> ((p.x - r.left) * 1000) \div r.width,
                          y |-> ((p.y - r.top) * 1000) \div r.height]
        now == Normalized(sinceEvent.point)
        previous(i) == IF i > 1 THEN now
                       ELSE IF sinceEvent.prior.any
                            THEN Normalized(sinceEvent.prior.point)
                            ELSE [x |-> 500, y |-> 500]
    IN  /\ \A i \in 1..Len(sinceEvent.reports) :
              /\ sinceEvent.reports[i].direction.x = now.x - previous(i).x
              /\ sinceEvent.reports[i].direction.y = now.y - previous(i).y
        /\ sinceEvent.any =>
              /\ interaction.interactionState.lastNX = now.x
              /\ interaction.interactionState.lastNY = now.y

\* a window pointermove reports its delta from the point an earlier
\* hit-region event reported
C18_Witness ==
    /\ sinceEvent.kind = "globalmove"
    /\ sinceEvent.prior.any
    /\ sinceEvent.prior.point = [x |-> 170, y |-> 35]
    /\ sinceEvent.point = [x |-> 250, y |-> 50]
    /\ Len(sinceEvent.reports) = 1
    /\ sinceEvent.reports[1].direction = [x |-> 400, y |-> 150]

---------------------------------------------------------------------------
(* Properties of the scene's life *)

\* C19: dispose() raises no error, whether init() never ran, has not
\* finished or has; a second dispose() with nothing changed in between
\* raises none either and leaves the scene as the first call left it.
C19_DisposeIsSafeTwice ==
    /\ ~disposal.threw
    /\ (disposal.calls >= 2 /\ disposal.settled) =>
          disposal.after = disposal.before

\* disposed before init() ran, again while init() awaits its assets (the
\* draw renderer and the video now released), and once more with nothing
\* changed
C19_Witness ==
    /\ disposal.first = "notCalled"
    /\ disposal.calls = 3
    /\ disposal.settled
    /\ initState = "awaiting"
    /\ released = {"drawRenderer", "video"}

\* C20: a failed mask or video load makes init() reject: once either load
\* has failed init() is not and never becomes resolved, a failed mask load
\* has rejected it, and no asset is requested a second time.
C20_FailedLoadRejectsInit ==
    /\ assetLoad.mask = "failed" => initState = "rejected"
    /\ assetLoad.video = "failed" => initState # "resolved"
    /\ assetLoad.maskRequests <= 1 /\ assetLoad.videoRequests <= 1

---------------------------------------------------------------------------
(* Properties of the video element *)

\* C21: a rejected video.play(), at video-ready or on a click on the play
\* button, raises no error and leaves videoReady and textureReady as they
\* were, so frames keep running; a click that finds the video paused calls
\* play() again.
C21_RejectedPlayIsHarmless ==
    /\ ~video.raised
    /\ (video.lastReject.happened /\ video.lastReject.ready) =>
          (videoReady /\ textureReady)
    /\ (video.lastReject.happened /\ video.lastReject.ready
          /\ frame > video.lastReject.frameAt /\ ~lastFrame.threw) =>
          (lastFrame.heat.ready \/ lastFrame.threw)
    /\ video.lastToggle.happened =>
          (video.lastToggle.played = video.lastToggle.pausedBefore)

\* the play() of video-ready was refused, a frame ran its heat update
\* afterwards, and a click on the play button called play() a second time
C21_Witness ==
    /\ video.lastReject.happened
    /\ video.lastReject.ready
    /\ video.lastReject.frameAt = 0
    /\ frame > 0
    /\ lastFrame.heat.ready
    /\ video.lastToggle.happened
    /\ video.lastToggle.pausedBefore
    /\ video.playCalls = 2

\* C29: after every update() with the video ready, the video's currentTime
\* is below 11.95: it is set to exactly 2.95 when it was at or above 11.95
\* at the start of the frame, and is otherwise unchanged.
C29_LoopKeepsTimeBelowEnd ==
    (lastFrame.heat.ready \/ (lastFrame.threw /\ videoReady /\ textureReady)) =>
        /\ lastFrame.video.after < LOOP_END_TIME
        /\ lastFrame.video.after =
             IF lastFrame.video.before >= LOOP_END_TIME THEN LOOP_START_TIME
             ELSE lastFrame.video.before

\* a frame after the first found the video exactly at the end time and sent
\* it back to the start time
C29_Witness ==
    /\ lastFrame.heat.ready
    /\ lastFrame.video.before = LOOP_END_TIME
    /\ lastFrame.video.after = LOOP_START_TIME
    /\ video.currentTime = LOOP_START_TIME
    /\ frame > 1

---------------------------------------------------------------------------
(* The whole program *)

Next ==
    \/ NextParams
    \/ NextFrame
    \/ NextPointer
    \/ NextLegacy
    \/ NextLife
    \/ NextVideo

Spec == Init /\ [][Next]_vars

====
